---- MODULE Spec2Model ----
(***************************************************************************)
(* A model of the study-assistant C++ backend (backend_cpp): the agent     *)
(* loop and its gRPC entry point, the JSON action extraction, the file     *)
(* tools and the atomic journal, the LRU+TTL cache, the key pool with the  *)
(* remote calls, the path filter, the sync service, the vector store, the  *)
(* retrieval engine, the log manager, the HTTP server's sync jobs and the  *)
(* telemetry bridge.                                                       *)
(*                                                                         *)
(* One module, several specifications over the same variables: each        *)
(* specification moves the variables of one subsystem and leaves the       *)
(* others at their initial values.                                         *)
(*   SpecExtract  extract_json applied to every bounded LLM text           *)
(*   SpecAgent    AgentServiceImpl::ExecuteTask + run_autonomous_loop      *)
(*   SpecTools    read_file / list_dir / apply_edit over a small file tree *)
(*   SpecCache    LRUCache get / set / clear with a clock                  *)
(*   SpecKeys     KeyManager, perform_request_with_retry, autocomplete     *)
(*   SpecTrie     PrefixTrie insert / check over bounded rule lists        *)
(*   SpecSync     perform_sync / sync_single_file over a small source tree *)
(*   SpecStore    FaissVectorStore add_nodes / save / load per project     *)
(*   SpecRetrieve retrieve with exponential_graph_expansion                *)
(*   SpecContext  build_hierarchical_context over bounded candidate lists  *)
(*   SpecLog      LogManager add_log / add_trace from two threads          *)
(*   SpecUtf8     utf8_safe_substr over bounded UTF-8 strings              *)
(*   SpecServer   the sync jobs on the worker pool and store_mutex         *)
(*   SpecJournal  SpecTools started with a journal left by an earlier run  *)
(*   SpecGraph    the structural weights of the nodes a sync parses        *)
(*   SpecEmbed    generate_embeddings_batch in batches of 50, add_nodes    *)
(*   SpecTrace    notify's asynchronous POSTs to /api/admin/publish_trace  *)
(***************************************************************************)
EXTENDS Integers, Sequences, FiniteSets, TLC

VARIABLES
    \* ---- SpecExtract
    raw,              \* the LLM text handed to extract_json
    extracted,        \* what extract_json returned for it (<<>> before the call)
    \* ---- SpecAgent
    pc,               \* position in ExecuteTask / run_autonomous_loop
    step,             \* loop counter of run_autonomous_loop
    llm_calls,        \* number of ai_service_->generate_text calls made
    events,           \* frames written to the streaming writer, counted per phase
    internal_monologue, \* notices appended to the monologue, counted per kind
    last_tool_used,
    second_to_last_tool,
    dispatched,       \* tool_registry_->dispatch calls, counted per (tool, params)
    outcome,          \* how run_autonomous_loop ended
    llm_failed        \* ghost: some generate_text_elite call returned success = false

agentVars == <<pc, step, llm_calls, events, internal_monologue, last_tool_used,
               second_to_last_tool, dispatched, outcome, llm_failed>>
extractVars == <<raw, extracted>>

-----------------------------------------------------------------------------
(* LLM texts.  A text is a sequence of tokens.  The braces are tokens of     *)
(* their own, which is all that find('{') / rfind('}') and a bracket matcher *)
(* look at; a member token stands for one  "key": scalar  pair (with its     *)
(* comma), "parameters:" for the key of a nested object, and the remaining   *)
(* tokens for prose outside any JSON.                                        *)

ToolMembers == {"tool:list_dir", "tool:read_file", "tool:FINAL_ANSWER", "tool:42"}
ParamMembers == {"path:.", "path:a.py", "answer:ok", "answer:42",
                 "project_id:evil", "project_id:ws"}
\* "parameters": "some string" -- a parameters value that is no object.
OtherMembers == {"parameters:str"}
ScalarMembers == ToolMembers \cup ParamMembers \cup OtherMembers
ProseTokens == {"prose", "prose FINAL_ANSWER", "ERROR: API Failure"}

EmptyObject == <<"{", "}">>

\* Index of the first / last occurrence of token c in s, 0 when there is none
\* (std::string::npos).
find(s, c) ==
    IF \E i \in 1..Len(s) : s[i] = c
    THEN CHOOSE i \in 1..Len(s) : s[i] = c /\ \A j \in 1..(i - 1) : s[j] # c
    ELSE 0

rfind(s, c) ==
    IF \E i \in 1..Len(s) : s[i] = c
    THEN CHOOSE i \in 1..Len(s) : s[i] = c /\ \A j \in (i + 1)..Len(s) : s[j] # c
    ELSE 0

\* nlohmann::json::parse restricted to objects: '{' member* '}', a member
\* being a scalar pair or "parameters:" followed by an object.  MembersEnd
\* returns the index after the '}' that closes the object whose members start
\* at i, or 0 for a syntax error.
RECURSIVE MembersEnd(_, _)
MembersEnd(s, i) ==
    IF i > Len(s) THEN 0
    ELSE IF s[i] = "}" THEN i + 1
    ELSE IF s[i] \in ScalarMembers THEN MembersEnd(s, i + 1)
    ELSE IF s[i] = "parameters:" /\ i + 1 <= Len(s) /\ s[i + 1] = "{"
         THEN LET e == MembersEnd(s, i + 2)
              IN  IF e = 0 THEN 0 ELSE MembersEnd(s, e)
    ELSE 0

ParsesAsObject(s) ==
    /\ Len(s) >= 2
    /\ s[1] = "{"
    /\ MembersEnd(s, 2) = Len(s) + 1

\* The body of extract_json for given find / rfind results: the substring is
\* parsed when both braces were found and last > first; a parse exception or
\* a failed test gives an empty object.
ExtractSpan(s, first, last) ==
    IF first # 0 /\ last # 0 /\ last > first /\ ParsesAsObject(SubSeq(s, first, last))
    THEN SubSeq(s, first, last)
    ELSE EmptyObject

\* AgentExecutor.cpp extract_json: "Find the first '{' and the last '}'".
extract_json(s) ==
    ExtractSpan(s, find(s, "{"), rfind(s, "}"))

\* Nesting depth of position i of s: braces opened minus braces closed before i.
Depth(s, i) ==
    Cardinality({j \in 1..(i - 1) : s[j] = "{"})
      - Cardinality({j \in 1..(i - 1) : s[j] = "}"})

\* The scalar members of object o at its top level.
TopMembers(o) == {o[i] : i \in {j \in 1..Len(o) : Depth(o, j) = 1 /\ o[j] \in ScalarMembers}}

\* action.contains("tool")
contains_tool(o) == TopMembers(o) \cap ToolMembers # {}

\* action["tool"] as the JSON value it is.
tool_value(o) == CHOOSE t \in TopMembers(o) \cap ToolMembers : TRUE

\* std::string tool_name = action["tool"] throws type_error.302 unless the
\* value is a string.
tool_is_string(o) == tool_value(o) # "tool:42"

tool_name_of(o) ==
    CASE tool_value(o) = "tool:list_dir"     -> "list_dir"
      [] tool_value(o) = "tool:read_file"    -> "read_file"
      [] tool_value(o) = "tool:FINAL_ANSWER" -> "FINAL_ANSWER"
      [] OTHER                               -> "42"

\* action.contains("parameters") && action["parameters"].is_object():
\* the members of that object, else those of a fresh empty object.
parameters_of(o) ==
    LET keys == {i \in 1..Len(o) : Depth(o, i) = 1 /\ o[i] = "parameters:"}
    IN  IF keys = {} THEN {}
        ELSE LET k == CHOOSE i \in keys : \A j \in keys : j <= i
             IN  {o[i] : i \in {j \in (k + 2)..Len(o) :
                                   /\ Depth(o, j) = 2
                                   /\ o[j] \in ScalarMembers
                                   /\ \A m \in (k + 2)..j : Depth(o, m) >= 2}}

\* thought.find("FINAL_ANSWER") != npos || thought.find("final answer") != npos
mentions_final(s) ==
    \E i \in 1..Len(s) : s[i] \in {"prose FINAL_ANSWER", "tool:FINAL_ANSWER"}

-----------------------------------------------------------------------------
(* LogManager (LogManager.hpp): two ring buffers behind one mutex, appended  *)
(* to by handler threads.  An entry is the number of the append that made    *)
(* it, counted per buffer in the order of the push_back calls.               *)

VARIABLES
    logs_,              \* std::deque<InteractionLog>
    agent_traces_,      \* std::deque<AgentTrace>
    mtx_,               \* the thread that holds mtx_, NoThread when free
    log_pc,             \* per thread: "idle", "add_log", "add_log_pushed", "add_trace", "add_trace_pushed"
    appended_logs,      \* number of push_back calls on logs_
    appended_traces     \* number of push_back calls on agent_traces_

logVars == <<logs_, agent_traces_, mtx_, log_pc, appended_logs, appended_traces>>

MaxAppends == 102
ring_capacity == 100

Threads == {"t1", "t2"}
NoThread == "none"

\* if (size() > 100) pop_back(): the newest entry is dropped.
ring_trim_PopBack(buf) ==
    IF Len(buf) > ring_capacity THEN SubSeq(buf, 1, Len(buf) - 1) ELSE buf

\* if (size() > 100) pop_front()
ring_trim(buf) ==
    IF Len(buf) > ring_capacity THEN Tail(buf) ELSE buf

LogIdle ==
    /\ logs_ = <<>>
    /\ agent_traces_ = <<>>
    /\ mtx_ = NoThread
    /\ log_pc = [t \in Threads |-> "idle"]
    /\ appended_logs = 0
    /\ appended_traces = 0

\* add_log, line 43: the lock_guard takes the mutex.
add_log_Lock(t) ==
    /\ log_pc[t] = "idle"
    /\ mtx_ = NoThread
    /\ appended_logs < MaxAppends
    /\ mtx_' = t
    /\ log_pc' = [log_pc EXCEPT ![t] = "add_log"]
    /\ UNCHANGED <<logs_, agent_traces_, appended_logs, appended_traces>>

\* add_log, line 44: push_back.
add_log_Push(t) ==
    /\ log_pc[t] = "add_log"
    /\ appended_logs' = appended_logs + 1
    /\ logs_' = Append(logs_, appended_logs')
    /\ log_pc' = [log_pc EXCEPT ![t] = "add_log_pushed"]
    /\ UNCHANGED <<agent_traces_, mtx_, appended_traces>>

\* add_log, lines 45-48: the trim, then the lock_guard releases the mutex.
add_log_Trim(t) ==
    /\ log_pc[t] = "add_log_pushed"
    /\ logs_' = ring_trim(logs_)
    /\ mtx_' = NoThread
    /\ log_pc' = [log_pc EXCEPT ![t] = "idle"]
    /\ UNCHANGED <<agent_traces_, appended_logs, appended_traces>>

\* add_trace, line 72.
add_trace_Lock(t) ==
    /\ log_pc[t] = "idle"
    /\ mtx_ = NoThread
    /\ appended_traces < MaxAppends
    /\ mtx_' = t
    /\ log_pc' = [log_pc EXCEPT ![t] = "add_trace"]
    /\ UNCHANGED <<logs_, agent_traces_, appended_logs, appended_traces>>

\* add_trace, line 73.
add_trace_Push(t) ==
    /\ log_pc[t] = "add_trace"
    /\ appended_traces' = appended_traces + 1
    /\ agent_traces_' = Append(agent_traces_, appended_traces')
    /\ log_pc' = [log_pc EXCEPT ![t] = "add_trace_pushed"]
    /\ UNCHANGED <<logs_, mtx_, appended_logs>>

\* add_trace, lines 74-75.
add_trace_Trim(t) ==
    /\ log_pc[t] = "add_trace_pushed"
    /\ agent_traces_' = ring_trim(agent_traces_)
    /\ mtx_' = NoThread
    /\ log_pc' = [log_pc EXCEPT ![t] = "idle"]
    /\ UNCHANGED <<logs_, appended_logs, appended_traces>>

-----------------------------------------------------------------------------
(* The agent loop: AgentExecutor::run_autonomous_loop called by             *)
(* AgentServiceImpl::ExecuteTask with a streaming writer.                    *)

max_steps == 10

Phases == {"STARTUP", "THOUGHT", "TOOL_EXEC", "AST_SCAN", "FINAL", "ERROR"}
Notices == {"loop_override", "ast", "observation", "hint", "invalid"}

\* The tools agent_main.cpp registers.
RegisteredTools == {"read_file", "list_dir", "apply_edit"}

\* req.project_id() of the mission.
MissionProjectId == "project_id:ws"

T_list      == <<"{", "tool:list_dir", "parameters:", "{", "path:.", "}", "}">>
T_read      == <<"{", "tool:read_file", "parameters:", "{", "path:a.py", "}", "}">>
T_final     == <<"{", "tool:FINAL_ANSWER", "parameters:", "{", "answer:ok", "}", "}">>
T_prose     == <<"prose">>
T_direct    == <<"prose FINAL_ANSWER">>
T_trailing  == <<"prose", "{", "tool:list_dir", "}", "prose", "{", "}">>
T_badtool   == <<"{", "tool:42", "}">>
T_badanswer == <<"{", "tool:FINAL_ANSWER", "parameters:", "{", "answer:42", "}", "}">>
T_evil      == <<"{", "tool:list_dir", "parameters:", "{", "path:.", "project_id:evil", "}", "}">>
T_strparams == <<"{", "tool:list_dir", "parameters:str", "}">>
T_failure   == <<"ERROR: API Failure">>

\* What generate_text_elite can hand back for one step: a text of the LLM with
\* success = true, or success = false with an "ERROR: ..." text
\* (embedding_service.cpp 170-215).
LLMResponses ==
    {[success |-> TRUE, text |-> t] :
        t \in {T_list, T_read, T_final, T_prose, T_direct, T_trailing,
               T_badtool, T_badanswer, T_evil, T_strparams}}
    \cup {[success |-> FALSE, text |-> T_failure]}

\* EmbeddingService::generate_text: the text of the result, success dropped.
generate_text(resp) == resp.text

Bump(f, k) == [f EXCEPT ![k] = @ + 1]

\* AgentExecutor::notify with a non-null writer: one frame of that phase.
notify(ev, phase) == Bump(ev, phase)

BagAdd(b, x) == IF x \in DOMAIN b THEN [b EXCEPT ![x] = @ + 1] ELSE b @@ (x :> 1)

BagSize(b) ==
    LET RECURSIVE Sum(_)
        Sum(S) == IF S = {} THEN 0
                  ELSE LET x == CHOOSE y \in S : TRUE IN b[x] + Sum(S \ {x})
    IN  Sum(DOMAIN b)

\* params.emplace("project_id", req.project_id()): a project_id the LLM
\* gave is kept.
inject_project_id_Emplace(params) ==
    IF params \cap {"project_id:evil", "project_id:ws"} # {} THEN params
    ELSE params \cup {MissionProjectId}

\* params["project_id"] = req.project_id(): the key is set, replacing any
\* value the LLM gave it.
inject_project_id(params) ==
    (params \ {"project_id:evil", "project_id:ws"}) \cup {MissionProjectId}

\* ToolRegistry::dispatch: the tool's result string, or the not-found error.
\* A tool result either starts with ERROR or it does not.
dispatch_results(tool_name) ==
    IF tool_name \in RegisteredTools THEN {"data", "ERROR"} ELSE {"ERROR"}

\* ToolRegistry::dispatch, line 73: a registered tool's execution is traced
\* with LogManager::add_trace (the whole call, no other thread is involved).
dispatch_Trace(tool_name) ==
    /\ IF tool_name \in RegisteredTools
       THEN /\ appended_traces' = appended_traces + 1
            /\ agent_traces_' = ring_trim(Append(agent_traces_, appended_traces'))
       ELSE UNCHANGED <<agent_traces_, appended_traces>>
    /\ UNCHANGED <<logs_, mtx_, log_pc, appended_logs>>

AgentInit ==
    /\ pc = "idle"
    /\ step = 0
    /\ llm_calls = 0
    /\ events = [p \in Phases |-> 0]
    /\ internal_monologue = [n \in Notices |-> 0]
    /\ last_tool_used = ""
    /\ second_to_last_tool = ""
    /\ dispatched = <<>>
    /\ outcome = "none"
    /\ llm_failed = FALSE

\* ExecuteTask up to the call of the loop: the STARTUP frame.
ExecuteTask_Begin ==
    /\ pc = "idle"
    /\ events' = Bump(events, "STARTUP")
    /\ pc' = "loop"
    /\ UNCHANGED <<step, llm_calls, internal_monologue, last_tool_used,
                   second_to_last_tool, dispatched, outcome, llm_failed>>

\* An exception leaves run_autonomous_loop (nlohmann type_error.302).
LoopThrows(ev, mono) ==
    /\ events' = ev
    /\ internal_monologue' = mono
    /\ pc' = "thrown"
    /\ outcome' = "exception"
    /\ UNCHANGED <<step, last_tool_used, second_to_last_tool, dispatched, logVars>>

\* notify(writer, "FINAL", ...) and return from inside the loop.
LoopReturns(ev, mono, how) ==
    /\ events' = notify(ev, "FINAL")
    /\ internal_monologue' = mono
    /\ pc' = "returned"
    /\ outcome' = how
    /\ UNCHANGED <<step, last_tool_used, second_to_last_tool, dispatched, logVars>>

\* Lines 198-238: dispatch, the read_file X-ray hook, the observation, the
\* tool tracking, the hint and the TOOL_EXEC frame.
DispatchBranch(tool_name, params, observation, ev, mono) ==
    LET ast   == tool_name = "read_file" /\ observation # "ERROR"
        mono2 == IF ast THEN Bump(mono, "ast") ELSE mono
        mono3 == Bump(mono2, "observation")
        mono4 == IF step >= 2 THEN Bump(mono3, "hint") ELSE mono3
        ev2   == IF ast THEN notify(ev, "AST_SCAN") ELSE ev
    IN  /\ observation \in dispatch_results(tool_name)
        /\ dispatched' = BagAdd(dispatched, [tool |-> tool_name, params |-> params])
        /\ dispatch_Trace(tool_name)
        /\ internal_monologue' = mono4
        /\ events' = notify(ev2, "TOOL_EXEC")
        /\ second_to_last_tool' = last_tool_used
        /\ last_tool_used' = tool_name
        /\ step' = step + 1
        /\ UNCHANGED <<pc, outcome>>

\* Lines 171-238: the action has a "tool" member of string type.
ToolBranch(action, observation, ev) ==
    LET tool_name == tool_name_of(action)
        looped    == tool_name = last_tool_used /\ tool_name = second_to_last_tool
        mono      == IF looped THEN Bump(internal_monologue, "loop_override")
                     ELSE internal_monologue
        params    == inject_project_id(parameters_of(action))
    IN  IF tool_name = "FINAL_ANSWER"
        THEN IF "answer:42" \in params
             THEN LoopThrows(ev, mono)
             ELSE LoopReturns(ev, mono, "final")
        ELSE DispatchBranch(tool_name, params, observation, ev, mono)

\* Lines 240-254: no "tool" member.
NoToolBranch(thought, ev) ==
    IF mentions_final(thought)
    THEN LoopReturns(ev, internal_monologue, "direct")
    ELSE /\ internal_monologue' = Bump(internal_monologue, "invalid")
         /\ events' = ev
         /\ step' = step + 1
         /\ UNCHANGED <<pc, outcome, last_tool_used, second_to_last_tool, dispatched, logVars>>

\* One iteration of the for loop (lines 130-255).
LoopStep(resp, observation) ==
    /\ pc = "loop"
    /\ step < max_steps
    /\ LET thought == generate_text(resp)
           ev      == notify(events, "THOUGHT")
           action  == extract_json(thought)
       IN  /\ llm_calls' = llm_calls + 1
           /\ llm_failed' = (llm_failed \/ ~resp.success)
           /\ IF contains_tool(action)
              THEN IF tool_is_string(action)
                   THEN ToolBranch(action, observation, ev)
                   ELSE LoopThrows(ev, internal_monologue)
              ELSE NoToolBranch(thought, ev)

\* Lines 257-261: the step limit.
LoopTimeout ==
    /\ pc = "loop"
    /\ step >= max_steps
    /\ events' = notify(events, "FINAL")
    /\ pc' = "returned"
    /\ outcome' = "timeout"
    /\ UNCHANGED <<step, llm_calls, internal_monologue, last_tool_used,
                   second_to_last_tool, dispatched, llm_failed>>

\* ExecuteTask after the loop returned: the "Final Payload" frame.
ExecuteTask_Return ==
    /\ pc = "returned"
    /\ events' = Bump(events, "FINAL")
    /\ pc' = "done"
    /\ UNCHANGED <<step, llm_calls, internal_monologue, last_tool_used,
                   second_to_last_tool, dispatched, outcome, llm_failed>>

\* ExecuteTask's catch block: the ERROR frame, Status::CANCELLED.
ExecuteTask_Catch ==
    /\ pc = "thrown"
    /\ events' = Bump(events, "ERROR")
    /\ pc' = "cancelled"
    /\ UNCHANGED <<step, llm_calls, internal_monologue, last_tool_used,
                   second_to_last_tool, dispatched, outcome, llm_failed>>


-----------------------------------------------------------------------------
(* The file tools: ReadFileTool / ListDirTool (FileSystemTools.cpp), the     *)
(* read_file / list_dir lambdas of main.cpp, and FileSurgicalTool with       *)
(* AtomicJournal, over a small file tree:                                    *)
(*     /home/secret.py          outside the project                          *)
(*     /home/ws/                the project source root                      *)
(*     /home/ws/a.py            an existing source file                      *)
(*     /home/ws/n.txt           a file that does not exist yet               *)
(* A path is its sequence of segments; a tool argument is relative or        *)
(* absolute.  The project has no config.json (load_config gives an empty     *)
(* filter).                                                                  *)

VARIABLES
    disk,         \* content of every file, "absent" for a file that does not exist
    edit,         \* the apply_edit call in flight: position in apply_surgery_safe
    tool_result,  \* the last tool call: arguments, kind of string returned, paths read or listed
    before,       \* ghost: disk as it was when the last tool call started
    tool_calls    \* number of tool calls started

toolVars == <<disk, edit, tool_result, before, tool_calls>>

MaxToolCalls == 2

ProjectRoot == <<"home", "ws">>

Rel(segs) == [abs |-> FALSE, segs |-> segs]
Abs(segs) == [abs |-> TRUE, segs |-> segs]

FilePaths == {<<"home", "ws", "a.py">>, <<"home", "ws", "n.txt">>, <<"home", "secret.py">>}
Directories == {<<>>, <<"home">>, <<"home", "ws">>}

\* A file or its journal, <path>.synapse_journal.
FileIds == [path : FilePaths, journal : BOOLEAN]
File(p) == [path |-> p, journal |-> FALSE]
JournalOf(p) == [path |-> p, journal |-> TRUE]

\* File contents.  Partial stands for what an interrupted write or copy leaves.
Empty == ""
Partial == "<partial>"
OldCode == "print('old')"
Secret == "SECRET = 42"
NewContents == {"def", "x = 1", "def f(): return 1", "def broken(:", Empty}

Size(c) ==
    CASE c = "def"               -> 3
      [] c = "x = 1"             -> 5
      [] c = "def f(): return 1" -> 17
      [] c = "def broken(:"      -> 12
      [] c = OldCode             -> 12
      [] c = Secret              -> 11
      [] c = Partial             -> 1
      [] OTHER                   -> 0

\* fs::path(root) / rel: an absolute right operand replaces the left one.
path_join(root, rel) == IF rel.abs THEN rel.segs ELSE root \o rel.segs

\* fs::path::lexically_normal: "." dropped, "name/.." removed, ".." at the
\* root dropped.
RECURSIVE lexically_normal(_)
lexically_normal(segs) ==
    IF segs = <<>> THEN <<>>
    ELSE LET init == lexically_normal(SubSeq(segs, 1, Len(segs) - 1))
             last == segs[Len(segs)]
         IN  IF last = "." THEN init
             ELSE IF last = ".." THEN SubSeq(init, 1, Len(init) - 1)
             ELSE Append(init, last)

IsPrefix(a, b) == Len(a) <= Len(b) /\ SubSeq(b, 1, Len(a)) = a

\* fs::relative(p, base) on normalised absolute paths.
lexically_relative(p, base) ==
    LET common == CHOOSE k \in 0..Len(base) :
                     /\ k <= Len(p)
                     /\ SubSeq(p, 1, k) = SubSeq(base, 1, k)
                     /\ \A m \in (k + 1)..Len(base) :
                           m > Len(p) \/ SubSeq(p, 1, m) # SubSeq(base, 1, m)
        up   == [i \in 1..(Len(base) - common) |-> ".."]
        rest == SubSeq(p, common + 1, Len(p))
    IN  IF up \o rest = <<>> THEN <<".">> ELSE up \o rest

\* p.extension() of the paths of the tree.
extension(p) ==
    IF p = <<>> THEN ""
    ELSE CASE p[Len(p)] \in {"a.py", "secret.py"} -> ".py"
           [] p[Len(p)] = "n.txt"                -> ".txt"
           [] OTHER                              -> ""

exists(d, p) == p \in Directories \/ (p \in FilePaths /\ d[File(p)] # "absent")

\* A path outside the project source root.
Outside(p) == ~IsPrefix(ProjectRoot, p)

\* ---- parser_elite.cpp

get_lang(ext) ==
    CASE ext \in {".cpp", ".hpp", ".h"} -> "cpp"
      [] ext = ".py"                    -> "python"
      [] ext \in {".ts", ".js"}         -> "typescript"
      [] OTHER                          -> "nullptr"

\* ts_node_has_error of the tree the grammar builds for the content.
has_error(content, lang) ==
    lang = "python" /\ content \in {"def", "def broken(:", Partial}

validate_syntax(content, ext) ==
    IF get_lang(ext) = "nullptr" THEN TRUE
    ELSE ~has_error(content, get_lang(ext))

\* ---- AtomicJournal.hpp

MinCodeLength == 10

validate_ast_integrity_SyntaxOnly(code, ext) ==
    validate_syntax(code, ext)

validate_ast_integrity(code, ext) ==
    IF ~validate_syntax(code, ext) THEN FALSE
    ELSE IF Size(code) < MinCodeLength /\ ext # ".txt" THEN FALSE
    ELSE TRUE

\* AtomicJournal::rollback on disk d, for each outcome of its copy and remove.
rollback(d, p, how) ==
    IF d[JournalOf(p)] = "absent" THEN d
    ELSE CASE how = "ok"           -> [d EXCEPT ![File(p)] = d[JournalOf(p)],
                                                ![JournalOf(p)] = "absent"]
           [] how = "remove_fails" -> [d EXCEPT ![File(p)] = d[JournalOf(p)]]
           [] how = "copy_partial" -> [d EXCEPT ![File(p)] = Partial]
           [] OTHER                -> d

\* AtomicJournal::commit: fs::remove of the journal, exceptions swallowed.
commit(d, p, how) ==
    IF how = "ok" THEN [d EXCEPT ![JournalOf(p)] = "absent"] ELSE d

NoEdit == [pc |-> "idle", target |-> <<>>, content |-> Empty]
NoResult == [tool |-> "none", arg |-> Rel(<<>>), target |-> <<>>, content |-> Empty,
             status |-> "none", touched |-> {}]

Result(tool, arg, target, content, status, touched) ==
    [tool |-> tool, arg |-> arg, target |-> target, content |-> content,
     status |-> status, touched |-> touched]

ToolsInit ==
    /\ disk = [f \in FileIds |->
                 IF f = File(<<"home", "ws", "a.py">>) THEN OldCode
                 ELSE IF f = File(<<"home", "secret.py">>) THEN Secret
                 ELSE "absent"]
    /\ edit = NoEdit
    /\ tool_result = NoResult
    /\ before = disk
    /\ tool_calls = 0

\* The tree when an earlier run has left n.txt.synapse_journal behind (a
\* commit or rollback whose fs::remove failed) and n.txt has been deleted
\* since.
ToolsInitStale ==
    /\ disk = [f \in FileIds |->
                 IF f = File(<<"home", "ws", "a.py">>) THEN OldCode
                 ELSE IF f = File(<<"home", "secret.py">>) THEN Secret
                 ELSE IF f = JournalOf(<<"home", "ws", "n.txt">>) THEN OldCode
                 ELSE "absent"]
    /\ edit = NoEdit
    /\ tool_result = NoResult
    /\ before = disk
    /\ tool_calls = 0

\* A tool call starts: the agent loop is synchronous, one call at a time.
CallStarts ==
    /\ edit.pc = "idle"
    /\ tool_calls < MaxToolCalls
    /\ tool_calls' = tool_calls + 1
    /\ before' = disk

\* FileSurgicalTool::execute up to the validation inside apply_surgery_safe.
FileSurgicalTool_execute(rel, new_content) ==
    /\ CallStarts
    /\ LET full_path == lexically_normal(path_join(ProjectRoot, rel))
       IN  IF rel.segs = <<>> \/ ~validate_ast_integrity(new_content, extension(full_path))
           THEN /\ tool_result' = Result("apply_edit", rel, full_path, new_content, "ERROR", {})
                /\ UNCHANGED <<disk, edit>>
           ELSE /\ edit' = [pc |-> "backup", target |-> full_path, content |-> new_content]
                /\ tool_result' = Result("apply_edit", rel, full_path, new_content,
                                         "pending", {})
                /\ UNCHANGED disk

\* apply_surgery_safe returns false: "ERROR: Surgery failed for ...".
SurgeryFails(d) ==
    /\ disk' = d
    /\ edit' = NoEdit
    /\ tool_result' = [tool_result EXCEPT !.status = "ERROR"]
    /\ UNCHANGED <<before, tool_calls>>

\* AtomicJournal::backup: fs::copy to the journal when the file exists.
backup(how) ==
    /\ edit.pc = "backup"
    /\ LET p == edit.target
       IN  IF disk[File(p)] # "absent"
           THEN CASE how = "ok" ->
                       /\ disk' = [disk EXCEPT ![JournalOf(p)] = disk[File(p)]]
                       /\ edit' = [edit EXCEPT !.pc = "open"]
                       /\ UNCHANGED <<tool_result, before, tool_calls>>
                  [] how = "copy_partial" ->
                       SurgeryFails([disk EXCEPT ![JournalOf(p)] = Partial])
                  [] OTHER -> SurgeryFails(disk)
           ELSE /\ how = "ok"
                /\ edit' = [edit EXCEPT !.pc = "open"]
                /\ UNCHANGED <<disk, tool_result, before, tool_calls>>

\* std::ofstream out(path, std::ios::trunc) and, when it is not open, rollback.
open_trunc(how, rollback_how) ==
    /\ edit.pc = "open"
    /\ LET p == edit.target
       IN  IF how = "ok"
           THEN /\ rollback_how = "ok"
                /\ disk' = [disk EXCEPT ![File(p)] = Empty]
                /\ edit' = [edit EXCEPT !.pc = "write"]
                /\ UNCHANGED <<tool_result, before, tool_calls>>
           ELSE SurgeryFails(rollback(disk, p, rollback_how))

\* out << new_code; out.close(); commit(path); return true.  The stream state
\* is not looked at: a failed or partial write still commits.
write_commit(how, commit_how) ==
    /\ edit.pc = "write"
    /\ how # "ok" => Size(edit.content) > 0
    /\ LET p == edit.target
           written == CASE how = "ok"      -> edit.content
                        [] how = "partial" -> Partial
                        [] OTHER           -> Empty
       IN  /\ disk' = commit([disk EXCEPT ![File(p)] = written], p, commit_how)
           /\ edit' = NoEdit
           /\ tool_result' = [tool_result EXCEPT !.status = "SUCCESS"]
           /\ UNCHANGED <<before, tool_calls>>

\* ---- FileSystemTools.cpp

MaxReadBytes == 524288
DefaultDepth == 2

\* What a tool hands back without changing the disk.
Returns(tool, rel, target, status, touched) ==
    /\ tool_result' = Result(tool, rel, target, Empty, status, touched)
    /\ UNCHANGED <<disk, edit>>

\* FileSystemTools::read_file_safe (fs::file_size throws for a directory; the
\* tool wrapper turns that into an ERROR string).
read_file_safe(tool, root, rel) ==
    LET target == lexically_normal(path_join(root, rel))
    IN  IF ~exists(disk, target) THEN Returns(tool, rel, target, "ERROR", {})
        ELSE IF target \in Directories THEN Returns(tool, rel, target, "ERROR", {})
        ELSE IF Size(disk[File(target)]) > MaxReadBytes
             THEN Returns(tool, rel, target, "ERROR", {})
        ELSE Returns(tool, rel, target, "OK", {target})

\* ReadFileTool::execute: project_id is the root.
ReadFileTool_execute(rel) ==
    /\ CallStarts
    /\ read_file_safe("ReadFileTool", ProjectRoot, rel)

\* The entries under directory t down to max_depth levels, on disk d.
entries_below(d, t, max_depth) ==
    {q \in Directories \cup {f.path : f \in {g \in FileIds : d[g] # "absent"}} :
        /\ IsPrefix(t, q)
        /\ q # t
        /\ Len(q) - Len(t) <= max_depth}

\* FileSystemTools::list_dir_deep with an empty filter.
list_dir_deep(tool, root, sub, max_depth) ==
    LET base_root   == lexically_normal(root)
        target_path == lexically_normal(path_join(base_root, sub))
    IN  IF base_root = <<>> THEN Returns(tool, sub, target_path, "ERROR", {})
        ELSE IF ~exists(disk, target_path) THEN Returns(tool, sub, target_path, "ERROR", {})
        ELSE IF target_path \notin Directories
             THEN Returns(tool, sub, target_path, "OK", {})
        ELSE Returns(tool, sub, target_path, "OK",
                     {target_path} \cup entries_below(disk, target_path, max_depth))

\* ListDirTool::execute
ListDirTool_execute(rel) ==
    /\ CallStarts
    /\ list_dir_deep("ListDirTool", ProjectRoot, rel, DefaultDepth)

\* ---- main.cpp, initialize_agent_system

\* The read_file lambda: no check of the target against the root.
read_file_lambda(rel) ==
    /\ CallStarts
    /\ LET target == lexically_normal(path_join(ProjectRoot, rel))
       IN  IF target \in FilePaths /\ disk[File(target)] # "absent"
           THEN Returns("read_file lambda", rel, target, "OK", {target})
           ELSE Returns("read_file lambda", rel, target, "ERROR", {})

\* The list_dir lambda: fs::relative of the target against the root must not
\* be empty nor hold "..".
list_dir_lambda(sub_path) ==
    /\ CallStarts
    /\ LET target_path == lexically_normal(path_join(ProjectRoot, sub_path))
           rel         == lexically_relative(target_path, ProjectRoot)
       IN  IF rel = <<>> \/ \E i \in 1..Len(rel) : rel[i] = ".."
           THEN Returns("list_dir lambda", sub_path, target_path, "ERROR", {})
           ELSE IF target_path \notin Directories
                THEN Returns("list_dir lambda", sub_path, target_path, "ERROR", {})
           ELSE Returns("list_dir lambda", sub_path, target_path, "OK",
                        {target_path} \cup entries_below(disk, target_path, 1))

\* The path arguments an LLM hands to the tools.
ReadArgs == {Rel(<<"a.py">>), Rel(<<"n.txt">>), Rel(<<"..", "secret.py">>),
             Abs(<<"home", "secret.py">>)}
ListArgs == {Rel(<<".">>), Rel(<<"..">>), Abs(<<"home">>), Rel(<<"a.py">>)}
EditArgs == ReadArgs \cup {Rel(<<>>)}

BackupOutcomes == {"ok", "copy_fails", "copy_partial"}
OpenOutcomes == {"ok", "fails"}
RollbackOutcomes == {"ok", "copy_fails", "copy_partial", "remove_fails"}
WriteOutcomes == {"ok", "fails", "partial"}
CommitOutcomes == {"ok", "remove_fails"}

-----------------------------------------------------------------------------
(* LRUCache<Key, Value> of cache_manager.hpp, with the steady clock.  A     *)
(* node of the std::list has an identity that its iterators keep through    *)
(* every splice; cache_list holds the keys of the nodes and list_nodes the  *)
(* identities, position by position.                                        *)

VARIABLES
    cache_list,     \* std::list<Key>: keys, most recently used first
    list_nodes,     \* the list nodes that hold the keys of cache_list
    cache_map,      \* Key -> CacheEntry {value, expiry_time}, NoEntry when not in the map
    list_it,        \* Key -> CacheEntry::list_it, the node it points to (0: no entry)
    clock,          \* std::chrono::steady_clock::now()
    cache_returned, \* what the operation that just returned handed back
    last_set,       \* ghost: per key, the value and time of the most recent set
    used,           \* ghost: every key ever used, most recent use (hit get or set) first
    evicted         \* ghost: the key the set that just returned evicted for capacity

cacheVars == <<cache_list, list_nodes, cache_map, list_it, clock, cache_returned,
               last_set, used, evicted>>

max_size_ == 2
ttl_ == 2
MaxClock == 4

Keys == {"k1", "k2", "k3"}
Values == {"v1", "v2"}

NoEntry == [value |-> "none", expiry_time |-> 0]
NeverSet == [value |-> "none", at |-> 0]
NoReturn == [op |-> "none", key |-> "none", value |-> "none"]

InMap(k) == cache_map[k] # NoEntry
MapSize == Cardinality({k \in Keys : InMap(k)})

\* The list without key k.
Without(list, k) == SelectSeq(list, LAMBDA x : x # k)

\* The most-recent-first order of uses after a use of k.
MoveToFront(list, k) == <<k>> \o Without(list, k)

\* The position in the list of the node an iterator points to.
PosOf(it) == CHOOSE i \in 1..Len(list_nodes) : list_nodes[i] = it

\* cache_list_.erase(it), on the elements at position i.
EraseAt(list, i) == SubSeq(list, 1, i - 1) \o SubSeq(list, i + 1, Len(list))

\* cache_list_.splice(cache_list_.begin(), cache_list_, it), on the elements
\* at position i.
SpliceToFront(list, i) == <<list[i]>> \o EraseAt(list, i)

\* The node push_front allocates: one that is not in the list.
NewNode(nodes) ==
    CHOOSE n \in 1..(Len(nodes) + 1) : \A i \in 1..Len(nodes) : nodes[i] # n

CacheInit ==
    /\ cache_list = <<>>
    /\ list_nodes = <<>>
    /\ cache_map = [k \in Keys |-> NoEntry]
    /\ list_it = [k \in Keys |-> 0]
    /\ clock = 0
    /\ cache_returned = NoReturn
    /\ last_set = [k \in Keys |-> NeverSet]
    /\ used = <<>>
    /\ evicted = "none"

\* The steady clock advances.
Tick ==
    /\ clock < MaxClock
    /\ clock' = clock + 1
    /\ cache_returned' = NoReturn
    /\ evicted' = "none"
    /\ UNCHANGED <<cache_list, list_nodes, cache_map, list_it, last_set, used>>

\* LRUCache::get with the expiry test left out.
get_IgnoresExpiry(key) ==
    /\ IF ~InMap(key)
       THEN /\ cache_returned' = [op |-> "get", key |-> key, value |-> "none"]
            /\ UNCHANGED <<cache_list, list_nodes, cache_map>>
       ELSE /\ cache_list' = SpliceToFront(cache_list, PosOf(list_it[key]))
            /\ list_nodes' = SpliceToFront(list_nodes, PosOf(list_it[key]))
            /\ cache_returned' = [op |-> "get", key |-> key, value |-> cache_map[key].value]
            /\ UNCHANGED cache_map
    /\ used' = IF cache_returned'.value # "none" THEN MoveToFront(used, key) ELSE used
    /\ evicted' = "none"
    /\ UNCHANGED <<list_it, clock, last_set>>

\* LRUCache::get whose expiry branch erases the map entry and leaves the
\* list node in place.
get_KeepsListNode(key) ==
    /\ IF ~InMap(key)
       THEN /\ cache_returned' = [op |-> "get", key |-> key, value |-> "none"]
            /\ UNCHANGED <<cache_list, list_nodes, cache_map, list_it>>
       ELSE IF clock > cache_map[key].expiry_time
       THEN /\ cache_map' = [cache_map EXCEPT ![key] = NoEntry]
            /\ list_it' = [list_it EXCEPT ![key] = 0]
            /\ cache_returned' = [op |-> "get", key |-> key, value |-> "none"]
            /\ UNCHANGED <<cache_list, list_nodes>>
       ELSE /\ cache_list' = SpliceToFront(cache_list, PosOf(list_it[key]))
            /\ list_nodes' = SpliceToFront(list_nodes, PosOf(list_it[key]))
            /\ cache_returned' = [op |-> "get", key |-> key, value |-> cache_map[key].value]
            /\ UNCHANGED <<cache_map, list_it>>
    /\ used' = IF cache_returned'.value # "none" THEN MoveToFront(used, key) ELSE used
    /\ evicted' = "none"
    /\ UNCHANGED <<clock, last_set>>

\* LRUCache::get
get(key) ==
    /\ IF ~InMap(key)
       THEN /\ cache_returned' = [op |-> "get", key |-> key, value |-> "none"]
            /\ UNCHANGED <<cache_list, list_nodes, cache_map, list_it>>
       ELSE IF clock > cache_map[key].expiry_time
       THEN /\ cache_list' = EraseAt(cache_list, PosOf(list_it[key]))
            /\ list_nodes' = EraseAt(list_nodes, PosOf(list_it[key]))
            /\ cache_map' = [cache_map EXCEPT ![key] = NoEntry]
            /\ list_it' = [list_it EXCEPT ![key] = 0]
            /\ cache_returned' = [op |-> "get", key |-> key, value |-> "none"]
       ELSE /\ cache_list' = SpliceToFront(cache_list, PosOf(list_it[key]))
            /\ list_nodes' = SpliceToFront(list_nodes, PosOf(list_it[key]))
            /\ cache_returned' = [op |-> "get", key |-> key, value |-> cache_map[key].value]
            /\ UNCHANGED <<cache_map, list_it>>
    /\ used' = IF cache_returned'.value # "none" THEN MoveToFront(used, key) ELSE used
    /\ evicted' = "none"
    /\ UNCHANGED <<clock, last_set>>

\* LRUCache::set evicting the front of the list (the most recently used key).
set_EvictsFront(key, value) ==
    /\ LET expiry == clock + ttl_
           entry == [value |-> value, expiry_time |-> expiry]
       IN  IF InMap(key)
           THEN /\ cache_map' = [cache_map EXCEPT ![key] = entry]
                /\ cache_list' = SpliceToFront(cache_list, PosOf(list_it[key]))
                /\ list_nodes' = SpliceToFront(list_nodes, PosOf(list_it[key]))
                /\ evicted' = "none"
                /\ UNCHANGED list_it
           ELSE IF MapSize >= max_size_
           THEN LET mru_key == cache_list[1]
                    node == NewNode(Tail(list_nodes))
                IN  /\ cache_list' = <<key>> \o Tail(cache_list)
                    /\ list_nodes' = <<node>> \o Tail(list_nodes)
                    /\ cache_map' = [cache_map EXCEPT ![mru_key] = NoEntry, ![key] = entry]
                    /\ list_it' = [list_it EXCEPT ![mru_key] = 0, ![key] = node]
                    /\ evicted' = mru_key
           ELSE /\ cache_list' = <<key>> \o cache_list
                /\ list_nodes' = <<NewNode(list_nodes)>> \o list_nodes
                /\ cache_map' = [cache_map EXCEPT ![key] = entry]
                /\ list_it' = [list_it EXCEPT ![key] = NewNode(list_nodes)]
                /\ evicted' = "none"
    /\ last_set' = [last_set EXCEPT ![key] = [value |-> value, at |-> clock]]
    /\ used' = MoveToFront(used, key)
    /\ cache_returned' = NoReturn
    /\ UNCHANGED clock

\* LRUCache::set
set(key, value) ==
    /\ LET expiry == clock + ttl_
       IN  IF InMap(key)
           THEN /\ cache_map' = [cache_map EXCEPT ![key] =
                                    [value |-> value, expiry_time |-> expiry]]
                /\ cache_list' = SpliceToFront(cache_list, PosOf(list_it[key]))
                /\ list_nodes' = SpliceToFront(list_nodes, PosOf(list_it[key]))
                /\ evicted' = "none"
                /\ UNCHANGED list_it
           ELSE IF MapSize >= max_size_
           THEN LET lru_key == cache_list[Len(cache_list)]
                    popped == SubSeq(list_nodes, 1, Len(list_nodes) - 1)
                    node == NewNode(popped)
                IN  /\ cache_list' = <<key>> \o SubSeq(cache_list, 1, Len(cache_list) - 1)
                    /\ list_nodes' = <<node>> \o popped
                    /\ cache_map' = [cache_map EXCEPT
                                        ![lru_key] = NoEntry,
                                        ![key] = [value |-> value, expiry_time |-> expiry]]
                    /\ list_it' = [list_it EXCEPT ![lru_key] = 0, ![key] = node]
                    /\ evicted' = lru_key
           ELSE /\ cache_list' = <<key>> \o cache_list
                /\ list_nodes' = <<NewNode(list_nodes)>> \o list_nodes
                /\ cache_map' = [cache_map EXCEPT ![key] =
                                    [value |-> value, expiry_time |-> expiry]]
                /\ list_it' = [list_it EXCEPT ![key] = NewNode(list_nodes)]
                /\ evicted' = "none"
    /\ last_set' = [last_set EXCEPT ![key] = [value |-> value, at |-> clock]]
    /\ used' = MoveToFront(used, key)
    /\ cache_returned' = NoReturn
    /\ UNCHANGED clock

\* LRUCache::clear
clear ==
    /\ cache_map' = [k \in Keys |-> NoEntry]
    /\ cache_list' = <<>>
    /\ list_nodes' = <<>>
    /\ list_it' = [k \in Keys |-> 0]
    /\ cache_returned' = NoReturn
    /\ evicted' = "none"
    /\ UNCHANGED <<clock, last_set, used>>

-----------------------------------------------------------------------------
(* KeyManager (KeyManager.hpp) and the remote calls of EmbeddingService that *)
(* use it: perform_request_with_retry under generate_text_elite, and         *)
(* generate_autocomplete.  keys.json configures NumKeys keys and NumModels   *)
(* models; the remote API answers each request with a status and a body.     *)

VARIABLES
    key_pool,            \* std::vector<ApiKey>: index -> {is_active, fail_count}
    current_key_index,   \* std::atomic<size_t>
    current_model_index, \* std::atomic<size_t>
    policy,              \* how the remote API answers a request made with each key
    call,                \* the remote call in progress or just returned
    remote_calls,        \* calls started so far
    consecutive,         \* ghost: per key, failures reported since its last 200
    max_consecutive      \* ghost: per key, the longest such run since the last refresh

keyVars == <<key_pool, current_key_index, current_model_index, policy, call,
             remote_calls, consecutive, max_consecutive>>

NumKeys == 2
NumModels == 2
MaxRemoteCalls == 2

KeyIdx == 0..(NumKeys - 1)
ModelIdx == 0..(NumModels - 1)

\* cpr::Response: status code and whether the body holds a usable candidate.
Responses == {[status |-> 200, body |-> "text"], [status |-> 200, body |-> "empty"],
              [status |-> 429, body |-> ""], [status |-> 503, body |-> ""],
              [status |-> 400, body |-> ""], [status |-> 401, body |-> ""]}

Always429 == {[status |-> 429, body |-> ""]}
Always200 == {[status |-> 200, body |-> "text"]}
Policies == {Responses, Always429, Always200}

FreshKey == [is_active |-> TRUE, fail_count |-> 0]
NoCall == [op |-> "none", pc |-> "idle", i |-> 0, max |-> 0, attempts |-> 0,
           reports |-> 0, retriable |-> 0, status |-> 0, late |-> FALSE,
           tried |-> {}, result |-> "none"]

\* KeyManager::get_current_pair (key_index, model_index)
get_current_pair ==
    [key_index |-> current_key_index % NumKeys,
     model_index |-> current_model_index % NumModels]

\* KeyManager::get_current_key, as the index of the key it returns
get_current_key == current_key_index % NumKeys

\* KeyManager::get_active_key_count
get_active_key_count == Cardinality({k \in KeyIdx : key_pool[k].is_active})

\* KeyManager::rotate_key
rotate_key(idx) == idx + 1

\* KeyManager::report_rate_limit: the pool after the call, idx being
\* current_key_index % key_pool.size().
report_rate_limit(pool, idx) ==
    [pool EXCEPT ![idx] = [is_active |-> IF pool[idx].fail_count + 1 > 2
                                         THEN FALSE ELSE pool[idx].is_active,
                           fail_count |-> pool[idx].fail_count + 1]]

\* The pool as the constructor leaves it, the remote API answering anything.
KeysIdle ==
    /\ key_pool = [k \in KeyIdx |-> FreshKey]
    /\ current_key_index = 0
    /\ current_model_index = 0
    /\ policy = [k \in KeyIdx |-> Responses]
    /\ call = NoCall
    /\ remote_calls = 0
    /\ consecutive = [k \in KeyIdx |-> 0]
    /\ max_consecutive = [k \in KeyIdx |-> 0]

KeysInit ==
    /\ key_pool = [k \in KeyIdx |-> FreshKey]
    /\ current_key_index = 0
    /\ current_model_index = 0
    /\ policy \in [KeyIdx -> Policies]
    /\ call = NoCall
    /\ remote_calls = 0
    /\ consecutive = [k \in KeyIdx |-> 0]
    /\ max_consecutive = [k \in KeyIdx |-> 0]

\* KeyManager::refresh_key_pool: keys.json is found and parsed, or it is not
\* and the pool stays as it is.
refresh_key_pool(found) ==
    /\ call.pc # "running"
    /\ IF found
       THEN /\ key_pool' = [k \in KeyIdx |-> FreshKey]
            /\ current_key_index' = 0
            /\ current_model_index' = 0
            /\ consecutive' = [k \in KeyIdx |-> 0]
            /\ max_consecutive' = [k \in KeyIdx |-> 0]
       ELSE UNCHANGED <<key_pool, current_key_index, current_model_index,
                        consecutive, max_consecutive>>
    /\ UNCHANGED <<policy, call, remote_calls>>

\* generate_text_elite enters perform_request_with_retry (max_retries = 5).
max_retries == 5

generate_text_elite_Begin ==
    /\ call.pc # "running"
    /\ remote_calls < MaxRemoteCalls
    /\ remote_calls' = remote_calls + 1
    /\ call' = [NoCall EXCEPT !.op = "text", !.pc = "running", !.max = max_retries]
    /\ UNCHANGED <<key_pool, current_key_index, current_model_index, policy,
                   consecutive, max_consecutive>>

\* Ghost bookkeeping of an answered request made with key k.
Answered(k, r) ==
    IF r.status = 200 THEN [consecutive EXCEPT ![k] = 0]
    ELSE consecutive

Reported(c, k) == [c EXCEPT ![k] = IF c[k] < 3 THEN c[k] + 1 ELSE 3]

Longest(m, c) == [k \in KeyIdx |-> IF c[k] > m[k] THEN c[k] ELSE m[k]]

\* perform_request_with_retry going on after any status but 200.
is_retriable_AnyError(r) == r.status # 200

\* (is_quota || is_server_err) of perform_request_with_retry
is_retriable(r) == r.status = 429 \/ r.status >= 500

\* One pass of the loop of perform_request_with_retry, and what
\* generate_text_elite makes of the response when the loop is left.
retry_Attempt(r) ==
    /\ call.op = "text" /\ call.pc = "running"
    /\ LET k == get_current_key
           made == [call EXCEPT !.attempts = call.attempts + 1, !.status = r.status,
                                !.tried = call.tried \cup {<<current_model_index % NumModels, k>>},
                                !.retriable = call.retriable
                                    + (IF r.status \in {429, 503} THEN 1 ELSE 0),
                                !.late = call.late \/ (call.attempts > 0 /\ call.status \notin {429, 503})]
       IN  /\ r \in policy[k]
           /\ IF r.status = 200
              THEN /\ call' = [made EXCEPT !.pc = "returned",
                                  !.result = IF r.body = "text" THEN "success" ELSE "failure"]
                   /\ consecutive' = Answered(k, r)
                   /\ UNCHANGED <<key_pool, max_consecutive>>
              ELSE IF is_retriable(r)
              THEN /\ key_pool' = report_rate_limit(key_pool, k)
                   /\ consecutive' = Reported(consecutive, k)
                   /\ max_consecutive' = Longest(max_consecutive, consecutive')
                   /\ call' = [made EXCEPT
                                  !.reports = call.reports + 1,
                                  !.i = call.i + 1,
                                  !.pc = IF call.i + 1 < call.max THEN "running" ELSE "returned",
                                  !.result = IF call.i + 1 < call.max THEN "none" ELSE "failure"]
              ELSE /\ call' = [made EXCEPT !.pc = "returned", !.result = "failure"]
                   /\ UNCHANGED <<key_pool, consecutive, max_consecutive>>
    /\ UNCHANGED <<current_key_index, current_model_index, policy, remote_calls>>

\* generate_autocomplete up to its loop: max_attempts = keys x models.
generate_autocomplete_Begin ==
    /\ call.pc # "running"
    /\ remote_calls < MaxRemoteCalls
    /\ remote_calls' = remote_calls + 1
    /\ call' = [NoCall EXCEPT !.op = "autocomplete", !.pc = "running",
                              !.max = NumKeys * NumModels]
    /\ UNCHANGED <<key_pool, current_key_index, current_model_index, policy,
                   consecutive, max_consecutive>>

\* One pass of the loop of generate_autocomplete.
autocomplete_Attempt(r) ==
    /\ call.op = "autocomplete" /\ call.pc = "running"
    /\ LET pair == get_current_pair
           made == [call EXCEPT !.attempts = call.attempts + 1, !.status = r.status,
                                !.tried = call.tried \cup {<<pair.model_index, pair.key_index>>},
                                !.i = call.i + 1]
           next == [made EXCEPT
                       !.pc = IF call.i + 1 < call.max THEN "running" ELSE "returned",
                       !.result = IF call.i + 1 < call.max THEN "none" ELSE "empty"]
       IN  /\ r \in policy[pair.key_index]
           /\ consecutive' = Answered(pair.key_index, r)
           /\ IF r.status = 200 /\ r.body = "text"
              THEN /\ call' = [made EXCEPT !.pc = "returned", !.result = "text"]
                   /\ UNCHANGED <<current_key_index, current_model_index>>
              ELSE IF r.status \in {400, 404}
              THEN /\ call' = next
                   /\ current_model_index' = current_model_index + 1
                   /\ current_key_index' = 0
              ELSE /\ call' = next
                   /\ current_key_index' = rotate_key(current_key_index)
                   /\ UNCHANGED current_model_index
    /\ UNCHANGED <<key_pool, policy, remote_calls, max_consecutive>>

-----------------------------------------------------------------------------
(* PrefixTrie (PrefixTrie.hpp).  A path is the sequence of segments that     *)
(* iterating a std::filesystem::path yields; a node of the trie is named by  *)
(* the segments that lead to it, the root by <<>>.  Flags are sets of        *)
(* PathFlag bits, so that |= is a union.                                     *)

VARIABLES
    trie,           \* node -> flags, for the nodes that exist
    rules_pending,  \* the rules of the configuration not inserted yet
    rules_inserted, \* the rules inserted so far
    checked         \* path and result of the check that just returned

trieVars == <<trie, rules_pending, rules_inserted, checked>>

MaxRules == 2
MaxRuleLen == 2
MaxPathLen == 3

NONE == {}
IGNORE == {"IGNORE"}
INCLUDE == {"INCLUDE"}

Segments == {"a", "b", "."}
SegmentPaths(n) == UNION {[1..m -> Segments] : m \in 0..n}
Rules == [path : SegmentPaths(MaxRuleLen), flag : {IGNORE, INCLUDE}]
RuleLists == UNION {[1..n -> Rules] : n \in 0..MaxRules}

\* PrefixTrie(): the root node alone.
EmptyTrie == (<<>> :> NONE)

NotChecked == [path |-> <<>>, flags |-> {"unchecked"}]

\* The node insert ends at: segments "." and "" are skipped.
InsertNode(path) == SelectSeq(path, LAMBDA segment : segment # "." /\ segment # "")

\* PrefixTrie::insert: the trie after insert(path, flag).
PrefixTrie_insert(t, path, flag) ==
    LET leaf == InsertNode(path)
        created == {SubSeq(leaf, 1, n) : n \in 0..Len(leaf)}
    IN  [node \in DOMAIN t \cup created |->
            LET old == IF node \in DOMAIN t THEN t[node] ELSE NONE
            IN  IF node = leaf THEN old \cup flag ELSE old]

\* The loop of PrefixTrie::check from segment i on, current being the node
\* reached and accumulated_flags the flags collected so far.
RECURSIVE CheckFrom(_, _, _, _, _)
CheckFrom(t, path, i, current, accumulated_flags) ==
    IF i > Len(path) THEN accumulated_flags
    ELSE LET child == Append(current, path[i])
         IN  IF child \notin DOMAIN t THEN accumulated_flags
             ELSE CheckFrom(t, path, i + 1, child,
                            IF t[child] # NONE THEN t[child] ELSE accumulated_flags)

\* PrefixTrie::check
PrefixTrie_check(t, path) == CheckFrom(t, path, 1, <<>>, NONE)

TrieIdle ==
    /\ trie = EmptyTrie
    /\ rules_pending = <<>>
    /\ rules_inserted = <<>>
    /\ checked = NotChecked

TrieInit ==
    /\ trie = EmptyTrie
    /\ rules_pending \in RuleLists
    /\ rules_inserted = <<>>
    /\ checked = NotChecked

\* trie.insert(p, flag) for the next rule of the configuration.
insert ==
    /\ rules_pending # <<>>
    /\ trie' = PrefixTrie_insert(trie, Head(rules_pending).path, Head(rules_pending).flag)
    /\ rules_pending' = Tail(rules_pending)
    /\ rules_inserted' = Append(rules_inserted, Head(rules_pending))
    /\ checked' = NotChecked

\* trie.check(path)
check(path) ==
    /\ checked' = [path |-> path, flags |-> PrefixTrie_check(trie, path)]
    /\ UNCHANGED <<trie, rules_pending, rules_inserted>>

-----------------------------------------------------------------------------
(* SyncService (sync_service.cpp) and the two sync handlers of main.cpp.     *)
(* The source tree has fixed directories; each file is absent or has one of  *)
(* two (size, mtime) states, which is all calculate_file_hash looks at.      *)

VARIABLES
    source,         \* file -> "absent" or its current size-mtime state
    cfg,            \* FilterConfig: blacklist, whitelist (allowed_extensions is fixed)
    manifest,       \* data/<project_id>/manifest.json: file -> hash, "none" for no entry
    stored_nodes,   \* vector_store/metadata.json: the nodes of the project store
    sync_result     \* what the sync that just completed did

syncVars == <<source, cfg, manifest, stored_nodes, sync_result>>

SourceDirs == {<<"src">>, <<"src", "gen">>}
SourceFiles == {<<"main.py">>, <<"src", "gen", "out.py">>, <<"src", "gen", "notes.md">>}
FileStates == {"s1-t1", "s2-t2"}
\* The states each file takes: out.py is the file that gets edited, the
\* others are only created and removed.
StatesOf(f) == IF f = <<"src", "gen", "out.py">> THEN FileStates ELSE {"s1-t1"}
AllowedExtensions == {"py"}

IgnoredCandidates == {<<"src">>, <<"src", "gen">>}
IncludedCandidates == {<<"src", "gen">>, <<"src", "gen", "out.py">>}

\* A set of paths as the vector the configuration holds (its order is of no
\* consequence to the trie).
RECURSIVE AsList(_)
AsList(S) ==
    IF S = {} THEN <<>>
    ELSE LET x == CHOOSE y \in S : \A z \in S : Len(y) <= Len(z)
         IN  <<x>> \o AsList(S \ {x})

\* before: the manifest before a single-file sync;
\* had_stale / had_gone: the manifest a full sync started from held an
\* outdated hash of a collected file / an entry of a file not on disk.
NoSync == [op |-> "none", file |-> <<>>, collected |-> {}, descended |-> {},
           embedded |-> {}, nodes |-> {}, before |-> "none", had_stale |-> FALSE,
           had_gone |-> FALSE, threw |-> FALSE]

\* SyncService::calculate_file_hash: "<size>-<mtime>"
calculate_file_hash(f) == source[f]

\* path.extension() without its dot
ext_of(f) ==
    LET name == f[Len(f)]
    IN  IF name \in {"main.py", "out.py"} THEN "py" ELSE "md"

\* The trie recursive_scan builds: the blacklist, then the whitelist.
RECURSIVE InsertAll(_, _, _)
InsertAll(t, paths, flag) ==
    IF paths = <<>> THEN t
    ELSE InsertAll(PrefixTrie_insert(t, Head(paths), flag), Tail(paths), flag)

ScanTrie(c) == InsertAll(InsertAll(EmptyTrie, c.blacklist, IGNORE), c.whitelist, INCLUDE)

\* fs::directory_iterator(dir): the directories and the files present in dir.
Entries(dir) ==
    {e \in SourceDirs \cup {f \in SourceFiles : source[f] # "absent"} :
        Len(e) = Len(dir) + 1 /\ IsPrefix(dir, e)}

\* recursive_scan: if (!is_ignored || is_included)
enters(flag) == ("IGNORE" \notin flag) \/ ("INCLUDE" \in flag)

\* SyncService::recursive_scan from directory dir (relative to the source
\* root): the directories entered and the files pushed to results.
RECURSIVE recursive_scan(_, _)
recursive_scan(dir, c) ==
    LET t == ScanTrie(c)
        dirs == {e \in Entries(dir) : e \in SourceDirs /\ enters(PrefixTrie_check(t, e))}
        files == {e \in Entries(dir) :
                     /\ e \in SourceFiles
                     /\ ~("IGNORE" \in PrefixTrie_check(t, e) /\ "INCLUDE" \notin PrefixTrie_check(t, e))
                     /\ ext_of(e) \in AllowedExtensions}
        below == {recursive_scan(d, c) : d \in dirs}
    IN  [descended |-> dirs \cup UNION {b.descended : b \in below},
         results |-> files \cup UNION {b.results : b \in below}]

SyncIdle ==
    /\ source = [f \in SourceFiles |-> "s1-t1"]
    /\ cfg = [blacklist |-> <<>>, whitelist |-> <<>>]
    /\ manifest = [f \in SourceFiles |-> "none"]
    /\ stored_nodes = {}
    /\ sync_result = NoSync

SyncInit ==
    /\ source = [f \in SourceFiles |-> "s1-t1"]
    /\ \E ign \in SUBSET IgnoredCandidates, inc \in SUBSET IncludedCandidates :
          /\ Cardinality(ign) <= 1 /\ Cardinality(inc) <= 1
          /\ cfg = [blacklist |-> AsList(ign), whitelist |-> AsList(inc)]
    /\ manifest \in {m \in [SourceFiles -> FileStates \cup {"none"}] :
                         \A f \in SourceFiles : m[f] \in StatesOf(f) \cup {"none"}}
    /\ stored_nodes = {}
    /\ sync_result = NoSync

\* The user edits, creates or removes a source file.
touch(f, state) ==
    /\ source[f] # state
    /\ source' = [source EXCEPT ![f] = state]
    /\ sync_result' = NoSync
    /\ UNCHANGED <<cfg, manifest, stored_nodes>>

\* A node of file f parsed from its current content.
Node(f, embedded) == [file |-> f, of |-> source[f], embedding |-> embedded]

\* A manifest that keeps the previous entry of every file the scan did not
\* collect.
new_manifest_Merged(files_to_process, old) ==
    [f \in SourceFiles |->
        IF f \in files_to_process THEN calculate_file_hash(f) ELSE old[f]]

\* The new_manifest perform_sync fills in its loop over files_to_process,
\* starting from an empty map (old: the manifest loaded at the start).
new_manifest_of(files_to_process, old) ==
    [f \in SourceFiles |->
        IF f \in files_to_process THEN calculate_file_hash(f) ELSE "none"]

\* POST /sync/:project_id -> SyncService::perform_sync and the store update
\* of the handler.  embed_ok: generate_embeddings_batch got its vectors.
perform_sync(embed_ok) ==
  \E scan \in {recursive_scan(<<>>, cfg)} :
    LET files_to_process == scan.results
        new_manifest == new_manifest_of(files_to_process, manifest)
        changed == {f \in files_to_process : calculate_file_hash(f) # manifest[f]}
        nodes == {Node(f, embed_ok) : f \in changed}
                   \cup {n \in stored_nodes : n.file \in files_to_process \ changed}
    IN  /\ manifest' = new_manifest
        /\ stored_nodes' = IF nodes = {} THEN stored_nodes
                           ELSE {n \in nodes : n.embedding}
        /\ sync_result' = [op |-> "perform_sync", file |-> <<>>,
                           collected |-> files_to_process, descended |-> scan.descended,
                           embedded |-> changed, nodes |-> nodes, before |-> "none",
                           had_stale |-> \E f \in changed : manifest[f] # "none",
                           had_gone |-> \E f \in SourceFiles :
                                           source[f] = "absent" /\ manifest[f] # "none",
                           threw |-> FALSE]
        /\ UNCHANGED <<source, cfg>>

\* POST /sync/file/:project_id -> SyncService::sync_single_file and the
\* add_nodes of the handler.  A missing file and a failed embedding request
\* throw; the handler logs the exception.
sync_single_file(relative_path, embed_ok) ==
    /\ IF source[relative_path] = "absent" \/ ~embed_ok
       THEN /\ sync_result' = [NoSync EXCEPT !.op = "sync_single_file",
                                  !.file = relative_path, !.before = manifest,
                                  !.embedded = IF source[relative_path] = "absent"
                                               THEN {} ELSE {relative_path},
                                  !.threw = TRUE]
            /\ UNCHANGED stored_nodes
       ELSE /\ sync_result' = [NoSync EXCEPT !.op = "sync_single_file",
                                  !.file = relative_path, !.before = manifest,
                                  !.embedded = {relative_path},
                                  !.nodes = {Node(relative_path, TRUE)}]
            /\ stored_nodes' = stored_nodes \cup {Node(relative_path, TRUE)}
    /\ UNCHANGED <<source, cfg, manifest>>

-----------------------------------------------------------------------------
(* FaissVectorStore (faiss_vector_store.cpp) of one project, as the sync     *)
(* handlers and load_vector_store of main.cpp use it.  The FAISS index       *)
(* itself is its vector count ntotal; internal ids are positions in it.      *)

VARIABLES
    project_store,  \* project_stores_[project_id]: the store in memory, NoStore when not cached
    saved_store     \* vector_store/ on disk: what the last save wrote, NoStore when absent

storeVars == <<project_store, saved_store>>

MaxIndexed == 4

NodeIds == {"a.ts", "a.ts::f", "b.ts"}
Revisions == {1, 2}
StoreFiles == {"a.ts", "b.ts"}

\* CodeNode::file_path of a node id "<relative_path>[::<symbol_name>]"
file_path_of(id) == IF id = "b.ts" THEN "b.ts" ELSE "a.ts"

NoStore == [ntotal |-> -1, nodes_list |-> <<>>, id_to_node_map |-> <<>>,
            name_to_id_map |-> <<>>]

\* FaissVectorStore::FaissVectorStore: an empty index and empty maps.
NewStore == [ntotal |-> 0, nodes_list |-> <<>>, id_to_node_map |-> <<>>,
             name_to_id_map |-> <<>>]

\* What a map holds for key k after  map[k] = v.
Put(map, k, v) == [x \in DOMAIN map \cup {k} |-> IF x = k THEN v ELSE map[x]]

\* The loop of add_nodes over node_pointers, from position i.
RECURSIVE AddFrom(_, _, _, _)
AddFrom(st, start_idx, node_pointers, i) ==
    IF i > Len(node_pointers) THEN st
    ELSE LET current_id == start_idx + (i - 1)
             node == node_pointers[i]
         IN  AddFrom([st EXCEPT !.nodes_list = Append(st.nodes_list, node),
                                !.id_to_node_map = Put(st.id_to_node_map, current_id, node),
                                !.name_to_id_map = Put(st.name_to_id_map, node.id, current_id)],
                     start_idx, node_pointers, i + 1)

\* FaissVectorStore::add_nodes: the store after the call.
add_nodes(st, nodes) ==
    LET node_pointers == SelectSeq(nodes, LAMBDA n : n.embedding)
    IN  IF node_pointers = <<>> THEN st
        ELSE AddFrom([st EXCEPT !.ntotal = st.ntotal + Len(node_pointers)],
                     st.ntotal, node_pointers, 1)

\* FaissVectorStore::save followed by FaissVectorStore::load: faiss.index
\* keeps its vectors, the maps are rebuilt from metadata.json.
load(saved) ==
    [ntotal |-> saved.ntotal, nodes_list |-> saved.nodes_list,
     id_to_node_map |-> [i \in 0..(Len(saved.nodes_list) - 1) |-> saved.nodes_list[i + 1]],
     name_to_id_map |-> [id \in {saved.nodes_list[i].id : i \in 1..Len(saved.nodes_list)} |->
                            (CHOOSE i \in 1..Len(saved.nodes_list) :
                                /\ saved.nodes_list[i].id = id
                                /\ \A j \in (i + 1)..Len(saved.nodes_list) :
                                      saved.nodes_list[j].id # id) - 1]]

\* FaissVectorStore::get_node_by_name, NoNode for nullptr.
NoNode == [id |-> "nullptr", rev |-> 0, embedding |-> FALSE]

get_node_by_name(st, name) ==
    IF name \in DOMAIN st.name_to_id_map /\ st.name_to_id_map[name] \in DOMAIN st.id_to_node_map
    THEN st.id_to_node_map[st.name_to_id_map[name]]
    ELSE NoNode

\* The nodes a sync hands over: those of the given files, parsed from
\* revision rev, each with or without an embedding.
NodesOf(files, rev, embedded) ==
    LET ids == {id \in NodeIds : file_path_of(id) \in files}
        Seq3 == <<"a.ts", "a.ts::f", "b.ts">>
    IN  [i \in 1..Cardinality(ids) |->
            LET id == SelectSeq(Seq3, LAMBDA x : x \in ids)[i]
            IN  [id |-> id, rev |-> rev, embedding |-> id \in embedded]]

StoreIdle ==
    /\ project_store = NoStore
    /\ saved_store = NoStore

\* The background job of handle_sync_project once perform_sync has returned
\* result.nodes: a fresh store is filled, saved and put in the map.
full_sync_rebuild(files, rev, embedded) ==
    /\ LET nodes == NodesOf(files, rev, embedded)
       IN  IF nodes = <<>> THEN UNCHANGED storeVars
           ELSE LET vector_store == add_nodes(NewStore, nodes)
                IN  /\ saved_store' = vector_store
                    /\ project_store' = vector_store

\* The background job of POST /sync/file once sync_single_file has returned
\* the nodes of the file: they are added to the cached store, which is saved.
single_file_hot_add(file, rev, embedded) ==
    /\ project_store # NoStore
    /\ project_store.ntotal + Cardinality({id \in NodeIds : file_path_of(id) = file}) <= MaxIndexed
    /\ project_store' = add_nodes(project_store, NodesOf({file}, rev, embedded))
    /\ saved_store' = project_store'

\* load_vector_store: the cached store, or the one loaded from disk.
load_vector_store ==
    /\ project_store = NoStore
    /\ saved_store # NoStore
    /\ project_store' = load(saved_store)
    /\ UNCHANGED saved_store

\* The server restarts: the in-memory map is empty again.
restart ==
    /\ project_store # NoStore
    /\ project_store' = NoStore
    /\ UNCHANGED saved_store

-----------------------------------------------------------------------------
(* RetrievalEngine::retrieve and exponential_graph_expansion                 *)
(* (retrieval_engine.cpp).  alpha is 0.5, so every exponent is a whole       *)
(* number of halves: a score  seed * e^(-halves/2)  is the record            *)
(* [seed, halves], and  base * exp(-alpha * new_dist)  adds new_dist halves. *)
(* FAISS scores of the L2 index are positive.                                *)

VARIABLES
    dependencies,   \* CodeNode::dependencies of every indexed node
    expansion_seeds,     \* the seeds the expansion was called with
    visited,        \* id -> RetrievalResult
    queue,          \* std::deque of <<node, dist, base_score>>
    retrieve_pc,    \* "idle", "expanding", "returned"
    results         \* what retrieve returned

retrieveVars == <<dependencies, expansion_seeds, visited, queue, retrieve_pc, results>>

RNodes == {"n1", "n2", "n3", "n4", "n5"}
SeedScores == {1, 2}
expansion_max_nodes == 200
max_hops == 3
MaxResults == 5

\* The dependency graphs explored; "missing" names no indexed node.
DependencyGraphs ==
    { [n1 |-> d1, n2 |-> d2, n3 |-> d3, n4 |-> d4, n5 |-> d5] :
        d1 \in SUBSET {"n2", "n3", "missing"},
        d2 \in {{}, {"n3"}, {"n1"}, {"n3", "n4"}},
        d3 \in {{}, {"n4"}, {"n1"}},
        d4 \in {{}, {"n5"}},
        d5 \in {{}, {"n1"}} }

\* vector_store_->search: up to two distinct seeds with their scores.
SeedLists ==
    {<<>>} \cup
    { <<[node |-> n, faiss_score |-> sc]>> : n \in {"n1", "n2"}, sc \in SeedScores } \cup
    { <<[node |-> n, faiss_score |-> sc], [node |-> m, faiss_score |-> tc]>> :
        n \in {"n1", "n2"}, m \in {"n1", "n2"}, sc \in SeedScores, tc \in SeedScores }

\* base_score * std::exp(-alpha * new_dist)
Decay(base_score, new_dist) == [base_score EXCEPT !.halves = @ + new_dist]

\* The orders in which a std::unordered_set can be iterated.
Orders(names) ==
    { o \in [1..Cardinality(names) -> names] :
        \A i, j \in 1..Cardinality(names) : o[i] = o[j] => i = j }

\* Lines 94-99: the seeds enter visited and the queue, first occurrence only.
RECURSIVE SeedFrom(_, _, _, _)
SeedFrom(seed_nodes, i, vis, q) ==
    IF i > Len(seed_nodes) THEN <<vis, q>>
    ELSE LET seed == seed_nodes[i]
             sc == [seed |-> seed.faiss_score, halves |-> 0]
         IN  IF seed.node \in DOMAIN vis THEN SeedFrom(seed_nodes, i + 1, vis, q)
             ELSE SeedFrom(seed_nodes, i + 1,
                           Put(vis, seed.node, [node |-> seed.node, graph_score |-> sc, distance |-> 0]),
                           Append(q, <<seed.node, 0, sc>>))

\* Lines 109-121 without the test of visited: a node reached again is
\* entered again.
RECURSIVE ExpandFrom_Revisit(_, _, _, _, _, _)
ExpandFrom_Revisit(deps, i, dist, base_score, vis, q) ==
    IF i > Len(deps) THEN <<vis, q>>
    ELSE LET candidate_node == deps[i]
             new_dist == dist + 1
             new_score == Decay(base_score, new_dist)
         IN  IF candidate_node \in RNodes
             THEN ExpandFrom_Revisit(deps, i + 1, dist, base_score,
                             Put(vis, candidate_node,
                                 [node |-> candidate_node, graph_score |-> new_score,
                                  distance |-> new_dist]),
                             Append(q, <<candidate_node, new_dist, new_score>>))
             ELSE ExpandFrom_Revisit(deps, i + 1, dist, base_score, vis, q)

\* Lines 109-121: the dependencies of curr in iteration order deps.
RECURSIVE ExpandFrom(_, _, _, _, _, _)
ExpandFrom(deps, i, dist, base_score, vis, q) ==
    IF i > Len(deps) THEN <<vis, q>>
    ELSE LET candidate_node == deps[i]   \* get_node_by_name: nullptr for "missing"
             new_dist == dist + 1
             new_score == Decay(base_score, new_dist)
         IN  IF candidate_node \in RNodes /\ candidate_node \notin DOMAIN vis
             THEN ExpandFrom(deps, i + 1, dist, base_score,
                             Put(vis, candidate_node,
                                 [node |-> candidate_node, graph_score |-> new_score,
                                  distance |-> new_dist]),
                             Append(q, <<candidate_node, new_dist, new_score>>))
             ELSE ExpandFrom(deps, i + 1, dist, base_score, vis, q)

RetrieveIdle ==
    /\ dependencies = [n \in RNodes |-> {}]
    /\ expansion_seeds = <<>>
    /\ visited = <<>>
    /\ queue = <<>>
    /\ retrieve_pc = "idle"
    /\ results = {}

RetrieveInit ==
    /\ dependencies \in DependencyGraphs
    /\ expansion_seeds = <<>>
    /\ visited = <<>>
    /\ queue = <<>>
    /\ retrieve_pc = "idle"
    /\ results = {}

\* retrieve up to the while loop of exponential_graph_expansion.
retrieve_Begin(seeds) ==
    /\ retrieve_pc = "idle"
    /\ \E sq \in {SeedFrom(seeds, 1, <<>>, <<>>)} :
          /\ visited' = sq[1]
          /\ queue' = sq[2]
    /\ expansion_seeds' = seeds
    /\ retrieve_pc' = "expanding"
    /\ UNCHANGED <<dependencies, results>>

\* One iteration of the while loop.
exponential_graph_expansion_Step ==
    /\ retrieve_pc = "expanding"
    /\ queue # <<>>
    /\ Cardinality(DOMAIN visited) < expansion_max_nodes
    /\ LET curr == queue[1][1]
           dist == queue[1][2]
           base_score == queue[1][3]
       IN  IF dist >= max_hops
           THEN /\ queue' = Tail(queue)
                /\ UNCHANGED visited
           ELSE \E deps \in Orders(dependencies[curr]) :
                   \E vq \in {ExpandFrom(deps, 1, dist, base_score, visited, Tail(queue))} :
                      /\ visited' = vq[1]
                      /\ queue' = vq[2]
    /\ UNCHANGED <<dependencies, expansion_seeds, retrieve_pc, results>>

\* The loop has ended: the results are scored, sorted by final_score and cut
\* to max_nodes.  final_score depends on the structural weight of each node,
\* so which results survive the cut is any max_nodes of them.
retrieve_Return(max_nodes) ==
    /\ retrieve_pc = "expanding"
    /\ queue = <<>> \/ Cardinality(DOMAIN visited) >= expansion_max_nodes
    /\ LET expanded == {visited[id] : id \in DOMAIN visited}
       IN  \E kept \in SUBSET expanded :
              /\ Cardinality(kept) = IF Cardinality(expanded) > max_nodes
                                     THEN max_nodes ELSE Cardinality(expanded)
              /\ results' = kept
    /\ retrieve_pc' = "returned"
    /\ UNCHANGED <<dependencies, expansion_seeds, visited, queue>>

-----------------------------------------------------------------------------
(* RetrievalEngine::build_hierarchical_context (retrieval_engine.cpp).  The  *)
(* context string is the sequence of the entries appended to it; its length  *)
(* is the sum of their lengths.  The content of a node is its length.        *)

VARIABLES
    candidates,     \* the argument: RetrievalResults in score order
    max_chars,      \* the argument
    context         \* the returned string: the candidates whose entries it holds

contextVars == <<candidates, max_chars, context>>

MaxCandidates == 3
FrameLength == 132

ContextFiles == {"a.ts", "b.ts"}
NodeTypes == {"file", "function"}
ContentLengths == {10, 200}
Budgets == {0, 150, 300, 500, 120000}

\* A file node is named after its file, a function node after the function.
CandidateNodes ==
    { [file_path |-> p, type |-> t, name |-> IF t = "file" THEN p ELSE "f", content |-> c] :
        p \in ContextFiles, t \in NodeTypes, c \in ContentLengths }

CandidateLists == UNION {[1..n -> CandidateNodes] : n \in 0..MaxCandidates}

\* std::string::length of the strings of the model.
length(str) == IF str = "f" THEN 1 ELSE IF str = "function" THEN 8 ELSE 4

\* entry.length(): "\n\n# FILE: " path " | NODE: " name " (Type: " type ")\n"
\* 50 dashes "\n" content "\n" 50 dashes "\n".
entry_length(node) ==
    FrameLength + length(node.file_path) + length(node.name) + length(node.type) + node.content

RECURSIVE context_length(_)
context_length(ctx) ==
    IF ctx = <<>> THEN 0 ELSE entry_length(candidates[Head(ctx)]) + context_length(Tail(ctx))

RECURSIVE LengthOf(_, _)
LengthOf(cands, ctx) ==
    IF ctx = <<>> THEN 0 ELSE entry_length(cands[Head(ctx)]) + LengthOf(cands, Tail(ctx))

\* The for loop from candidate i, with a  continue  in place of the  break.
RECURSIVE BuildFrom_Continue(_, _, _, _, _)
BuildFrom_Continue(cands, budget, i, included_files, ctx) ==
    IF i > Len(cands) THEN ctx
    ELSE LET cand == cands[i]
             included == IF cand.type = "file" THEN included_files \cup {cand.file_path}
                         ELSE included_files
         IN  IF cand.file_path \in included_files
             THEN BuildFrom_Continue(cands, budget, i + 1, included_files, ctx)
             ELSE IF LengthOf(cands, ctx) + entry_length(cand) > budget
                  THEN BuildFrom_Continue(cands, budget, i + 1, included, ctx)
                  ELSE BuildFrom_Continue(cands, budget, i + 1, included, Append(ctx, i))

build_hierarchical_context_NoBreak(cands, budget) ==
    BuildFrom_Continue(cands, budget, 1, {}, <<>>)

\* The for loop of build_hierarchical_context from candidate i.
RECURSIVE BuildFrom(_, _, _, _, _)
BuildFrom(cands, budget, i, included_files, ctx) ==
    IF i > Len(cands) THEN ctx
    ELSE LET cand == cands[i]
             included == IF cand.type = "file" THEN included_files \cup {cand.file_path}
                         ELSE included_files
         IN  IF cand.file_path \in included_files
             THEN BuildFrom(cands, budget, i + 1, included_files, ctx)
             ELSE IF LengthOf(cands, ctx) + entry_length(cand) > budget
                  THEN ctx
                  ELSE BuildFrom(cands, budget, i + 1, included, Append(ctx, i))

\* RetrievalEngine::build_hierarchical_context: the candidates emitted.
build_hierarchical_context_of(cands, budget) == BuildFrom(cands, budget, 1, {}, <<>>)

NotBuilt == <<0>>

ContextIdle ==
    /\ candidates = <<>>
    /\ max_chars = 0
    /\ context = NotBuilt

build_hierarchical_context(cands, budget) ==
    /\ context = NotBuilt
    /\ candidates' = cands
    /\ max_chars' = budget
    /\ context' = build_hierarchical_context_of(cands, budget)

-----------------------------------------------------------------------------
(* utf8_safe_substr (embedding_service.cpp).  A string is its sequence of    *)
(* bytes, 0..255; the inputs are the encodings of sequences of code points   *)
(* of one, two, three and four bytes.                                        *)

VARIABLES
    utf8_codepoints,    \* the code points of the argument str
    utf8_length,        \* the argument length
    utf8_sub            \* the returned string, NotCalled before the call

utf8Vars == <<utf8_codepoints, utf8_length, utf8_sub>>

MaxCodepoints == 3

\* "A", U+00E9, U+20AC, U+1F600
Codepoints == {<<65>>, <<195, 169>>, <<226, 130, 172>>, <<240, 159, 152, 128>>}

CodepointLists == UNION {[1..n -> Codepoints] : n \in 0..MaxCodepoints}

\* The bytes of a sequence of code points.
RECURSIVE Bytes(_)
Bytes(cps) == IF cps = <<>> THEN <<>> ELSE Head(cps) \o Bytes(Tail(cps))

NotCalled == <<-1>>

\* str.substr(0, length) alone.
utf8_safe_substr_Plain(str, len) ==
    IF Len(str) <= len THEN str ELSE SubSeq(str, 1, len)

\* The while loop of utf8_safe_substr.
RECURSIVE TrimBack(_)
TrimBack(sub) ==
    IF sub = <<>> THEN sub
    ELSE LET c == sub[Len(sub)]
             popped == SubSeq(sub, 1, Len(sub) - 1)
         IN  IF c < 128 THEN sub
             ELSE IF c >= 192 THEN popped
             ELSE TrimBack(popped)

utf8_safe_substr(str, len) ==
    IF Len(str) <= len THEN str
    ELSE LET sub == SubSeq(str, 1, len)
         IN  IF sub = <<>> THEN sub ELSE TrimBack(sub)

Utf8Idle ==
    /\ utf8_codepoints = <<>>
    /\ utf8_length = 0
    /\ utf8_sub = NotCalled

utf8_safe_substr_Call(cps, len) ==
    /\ utf8_sub = NotCalled
    /\ utf8_codepoints' = cps
    /\ utf8_length' = len
    /\ utf8_sub' = utf8_safe_substr(Bytes(cps), len)

-----------------------------------------------------------------------------
(* The sync handlers of main.cpp, their background jobs on thread_pool_ and  *)
(* a retrieval handler, as threads.  A job's position names the statement    *)
(* it is executing; what the statements do to the store is the vector store  *)
(* model above.  ThreadPool.hpp is not part of the sources: the pool is the  *)
(* fixed pool of the scheduling model, a FIFO of jobs and pool_size workers  *)
(* that each run one job at a time.                                          *)

VARIABLES
    tasks,          \* the pool's queue of jobs not yet started
    worker,         \* per worker: the job it runs and where it is, Idle when none
    store_mutex,    \* the holder of store_mutex: Free, HandlerThread or WorkerThread(w)
    handler,        \* the retrieval handler on the network thread
    accepted        \* sync requests accepted so far

serverVars == <<tasks, worker, store_mutex, handler, accepted>>

MaxRequests == 3
pool_size == 4

Projects == {"p1", "p2"}
Workers == 1..pool_size
Idle == [kind |-> "none", project |-> "none", at |-> "idle"]

Free == <<"free", 0>>
HandlerThread == <<"handler", 0>>
WorkerThread(w) == <<"worker", w>>

\* The statements of a job that read or write project_stores_ or call
\* add_nodes / save on a store, and those of the retrieval handler.
StoreStatements == {"map_count", "add_nodes", "save", "map_assign"}
HandlerStoreStatements == {"load_vector_store", "retrieve"}

ServerIdle ==
    /\ tasks = <<>>
    /\ worker = [w \in Workers |-> Idle]
    /\ store_mutex = Free
    /\ handler = [project |-> "none", at |-> "idle"]
    /\ accepted = 0

\* ThreadPool::enqueue: the job joins the queue.
enqueue(job) == tasks' = Append(tasks, job)

\* POST /sync/run/:project_id, handle_sync_project: the job is enqueued and the
\* handler answers success at once.
handle_sync_project(project_id) ==
    /\ accepted < MaxRequests
    /\ accepted' = accepted + 1
    /\ enqueue([kind |-> "full", project |-> project_id])
    /\ UNCHANGED <<worker, store_mutex, handler>>

\* POST /sync/file/:project_id: likewise for one file.
handle_sync_file(project_id) ==
    /\ accepted < MaxRequests
    /\ accepted' = accepted + 1
    /\ enqueue([kind |-> "file", project |-> project_id])
    /\ UNCHANGED <<worker, store_mutex, handler>>

\* A free worker of the pool takes the oldest job and starts it.
worker_Take(w) ==
    /\ worker[w] = Idle
    /\ tasks # <<>>
    /\ worker' = [worker EXCEPT ![w] =
                     [kind |-> Head(tasks).kind, project |-> Head(tasks).project,
                      at |-> IF Head(tasks).kind = "full" THEN "perform_sync"
                             ELSE "sync_single_file"]]
    /\ tasks' = Tail(tasks)
    /\ UNCHANGED <<store_mutex, handler, accepted>>

\* The job of handle_sync_project, statement by statement (lines 490-515):
\* perform_sync; if it returned nodes, add_nodes and save on a new store and
\* the assignment to project_stores_[project_id].  No statement takes
\* store_mutex.
full_sync_job_Step(w, nodes_empty) ==
    /\ worker[w].kind = "full"
    /\ LET next == CASE worker[w].at = "perform_sync" ->
                            IF nodes_empty THEN "idle" ELSE "add_nodes"
                      [] worker[w].at = "add_nodes"    -> "save"
                      [] worker[w].at = "save"         -> "map_assign"
                      [] OTHER                         -> "idle"
       IN  worker' = [worker EXCEPT ![w] = IF next = "idle" THEN Idle
                                           ELSE [@ EXCEPT !.at = next]]
    /\ UNCHANGED <<tasks, store_mutex, handler, accepted>>

\* The job of POST /sync/file (lines 309-332): sync_single_file; the lookup
\* project_stores_.count; if the store is cached, add_nodes and save on it.
\* No statement takes store_mutex.
single_file_job_Step(w, cached) ==
    /\ worker[w].kind = "file"
    /\ LET next == CASE worker[w].at = "sync_single_file" -> "map_count"
                      [] worker[w].at = "map_count" ->
                            IF cached THEN "add_nodes" ELSE "idle"
                      [] worker[w].at = "add_nodes" -> "save"
                      [] OTHER                      -> "idle"
       IN  worker' = [worker EXCEPT ![w] = IF next = "idle" THEN Idle
                                           ELSE [@ EXCEPT !.at = next]]
    /\ UNCHANGED <<tasks, store_mutex, handler, accepted>>

\* handle_retrieve_candidates, line 577: load_vector_store takes store_mutex.
retrieve_handler_Lock(project_id) ==
    /\ handler.at = "idle"
    /\ store_mutex = Free
    /\ store_mutex' = HandlerThread
    /\ handler' = [project |-> project_id, at |-> "load_vector_store"]
    /\ UNCHANGED <<tasks, worker, accepted>>

\* load_vector_store returns (the lock_guard releases the mutex): nullptr
\* ends the request, a store is searched by engine.retrieve (line 581).
retrieve_handler_Loaded(found) ==
    /\ handler.at = "load_vector_store"
    /\ store_mutex' = Free
    /\ handler' = IF found THEN [handler EXCEPT !.at = "retrieve"]
                  ELSE [project |-> "none", at |-> "idle"]
    /\ UNCHANGED <<tasks, worker, accepted>>

\* engine.retrieve has returned and the response is written.
retrieve_handler_Return ==
    /\ handler.at = "retrieve"
    /\ handler' = [project |-> "none", at |-> "idle"]
    /\ UNCHANGED <<tasks, worker, store_mutex, accepted>>

-----------------------------------------------------------------------------
(* The nodes a sync produces and their structural weights (code_graph.cpp,   *)
(* the finalization of perform_sync).  Weights are in tenths: 7 is 0.7.      *)

VARIABLES
    graph_nodes     \* result.nodes of the sync that completed, {} before

graphVars == <<graph_nodes>>

MaxImports == 2

GraphFiles == {"a.ts", "b.ts", "c.ts"}
ImportNames == {"a.ts", "b.ts", "c.ts", "lib"}

\* What the parser sees in a file: its import names and whether it holds a
\* function f.
ParsedFiles ==
    { p \in [GraphFiles -> [imports : SUBSET ImportNames, has_function : BOOLEAN]] :
        \A f \in GraphFiles : Cardinality(p[f].imports) <= MaxImports }

\* BracketParser::parse: a code_block node per function with weight 0.7 and
\* the file node with weight 1.0, all with the imports of the file as
\* dependencies.
extract_nodes_from_file(file_path, parsed) ==
    (IF parsed.has_function
     THEN {[id |-> <<file_path, "f">>, name |-> "f", file_path |-> file_path,
            type |-> "code_block", structural |-> 7, dependencies |-> parsed.imports]}
     ELSE {})
    \cup {[id |-> <<file_path>>, name |-> file_path, file_path |-> file_path,
           type |-> "file", structural |-> 10, dependencies |-> parsed.imports]}

GraphIdle == graph_nodes = {}

\* perform_sync of changed files up to its return: the nodes of every file
\* are parsed; the finalization embeds them, writes tree.txt and the
\* manifest and leaves the weights as the parser set them.
perform_sync_Nodes(parsed) ==
    /\ graph_nodes = {}
    /\ graph_nodes' = UNION {extract_nodes_from_file(f, parsed[f]) : f \in GraphFiles}

-----------------------------------------------------------------------------
(* Batched embedding of the nodes of a sync (sync_service.cpp 255-270, the   *)
(* call in perform_sync and add_nodes of the background job).  A node is its *)
(* position in nodes_to_embed, 1..n; an embedding is the number of the node  *)
(* whose text it was computed from, 0 is the empty vector.                   *)

VARIABLES
    node_embedding,   \* nodes[k]->embedding, <<>> before a sync
    embed_i,          \* the loop variable i of generate_embeddings_batch
    embed_pc,         \* "idle", "batch", "done", "indexed"
    batch_results,    \* what the service did for each batch so far
    embed_indexed     \* the nodes add_nodes put into the store

embedVars == <<node_embedding, embed_i, embed_pc, batch_results, embed_indexed>>

MaxEmbedNodes == 101
batch_size == 50

\* What embedding_service_->generate_embeddings_batch does with a batch:
\* it throws (a status other than 200, an unparsable body), returns nothing
\* (no "embeddings" key), or returns one vector per text, of which the first
\* or the last may have no "values".
BatchOutcomes == {"throw", "no_embeddings", "ok", "first_no_values", "last_no_values"}

\* The vectors the service returns for texts of the nodes i+1 .. end.
embs_of(reply, i, end) ==
    IF reply = "no_embeddings" THEN <<>>
    ELSE [j \in 1..(end - i) |->
            IF \/ reply = "first_no_values" /\ j = 1
               \/ reply = "last_no_values" /\ j = end - i
            THEN 0 ELSE i + j]

\* for (j = 0; j < embs.size(); ++j) nodes[j]->embedding = embs[j];
assign_embeddings_NoOffset(emb, i, embs) ==
    [k \in DOMAIN emb |-> IF k \in 1..Len(embs) THEN embs[k] ELSE emb[k]]

\* for (j = 0; j < embs.size(); ++j) nodes[i + j]->embedding = embs[j];
assign_embeddings(emb, i, embs) ==
    [k \in DOMAIN emb |-> IF k - i \in 1..Len(embs) THEN embs[k - i] ELSE emb[k]]

EmbedIdle ==
    /\ node_embedding = <<>>
    /\ embed_i = 0
    /\ embed_pc = "idle"
    /\ batch_results = <<>>
    /\ embed_indexed = {}

\* perform_sync with n parsed nodes to embed reaches its finalization.
perform_sync_Embed(n) ==
    /\ embed_pc = "idle"
    /\ node_embedding' = [k \in 1..n |-> 0]
    /\ embed_pc' = IF n = 0 THEN "done" ELSE "batch"
    /\ UNCHANGED <<embed_i, batch_results, embed_indexed>>

\* One turn of the loop of generate_embeddings_batch.
generate_embeddings_batch_Step(reply) ==
    /\ embed_pc = "batch"
    /\ LET n == Len(node_embedding)
           end == IF embed_i + batch_size < n THEN embed_i + batch_size ELSE n
       IN  /\ node_embedding' =
                 IF reply = "throw" THEN node_embedding
                 ELSE assign_embeddings(node_embedding, embed_i,
                                        embs_of(reply, embed_i, end))
           /\ embed_i' = embed_i + batch_size
           /\ embed_pc' = IF embed_i + batch_size < n THEN "batch" ELSE "done"
    /\ batch_results' = Append(batch_results, reply)
    /\ UNCHANGED embed_indexed

\* The background job adds result.nodes to a new store.
job_add_nodes ==
    /\ embed_pc = "done"
    /\ LET nodes == [k \in 1..Len(node_embedding) |->
                        [id |-> k, embedding |-> node_embedding[k] # 0]]
           st == add_nodes(NewStore, nodes)
       IN  embed_indexed' = {st.nodes_list[x].id : x \in 1..Len(st.nodes_list)}
    /\ embed_pc' = "indexed"
    /\ UNCHANGED <<node_embedding, embed_i, batch_results>>

-----------------------------------------------------------------------------
(* The telemetry bridge: AgentExecutor::notify posts every event to          *)
(* /api/admin/publish_trace with cpr::PostAsync and goes on without looking  *)
(* at the response; the handler of main.cpp records the event with           *)
(* add_trace.  An event is its number in emission order.                     *)

VARIABLES
    notified,          \* number of events notify has been called for
    in_flight,         \* events whose POST has been started and not yet answered
    published_traces   \* agent_traces_ of the server: the events add_trace recorded

traceVars == <<notified, in_flight, published_traces>>

MaxEvents == 4

TraceIdle ==
    /\ notified = 0
    /\ in_flight = {}
    /\ published_traces = <<>>

\* notify: the event is written to the writer and its POST is started.
notify_PostAsync ==
    /\ notified < MaxEvents
    /\ notified' = notified + 1
    /\ in_flight' = in_flight \cup {notified'}
    /\ UNCHANGED published_traces

\* The handler of POST /api/admin/publish_trace runs for one of the requests
\* in flight: the server takes each connection on a thread of its own.
publish_trace_handler(e) ==
    /\ e \in in_flight
    /\ published_traces' = ring_trim(Append(published_traces, e))
    /\ in_flight' = in_flight \ {e}
    /\ UNCHANGED notified

\* The POST does not reach the server (nothing listens on port 5002, the
\* connection times out); the response is discarded by notify.
post_fails(e) ==
    /\ e \in in_flight
    /\ in_flight' = in_flight \ {e}
    /\ UNCHANGED <<notified, published_traces>>

-----------------------------------------------------------------------------
(* extract_json on its own: every text up to MaxTextLen tokens.              *)

MaxTextLen == 5

ExtractAlphabet == {"{", "}", "tool:list_dir", "parameters:", "prose"}

BoundedTexts == UNION {[1..n -> ExtractAlphabet] : n \in 0..MaxTextLen}

\* extract_json never returns the empty sequence: it marks "not called yet".
NotExtracted == <<>>

ExtractInit ==
    /\ raw \in BoundedTexts
    /\ extracted = NotExtracted

ExtractIdle ==
    /\ raw = <<>>
    /\ extracted = NotExtracted

\* One call of extract_json(raw).
Extract ==
    /\ extracted = NotExtracted
    /\ extracted' = extract_json(raw)
    /\ UNCHANGED raw

-----------------------------------------------------------------------------
vars == <<extractVars, agentVars, toolVars, cacheVars, keyVars, trieVars, syncVars, storeVars, retrieveVars, contextVars, logVars, utf8Vars, serverVars, graphVars, embedVars, traceVars>>

InitExtract == ExtractInit /\ AgentInit /\ ToolsInit /\ CacheInit /\ KeysIdle /\ TrieIdle /\ SyncIdle /\ StoreIdle /\ RetrieveIdle /\ ContextIdle /\ LogIdle /\ Utf8Idle /\ ServerIdle /\ GraphIdle /\ EmbedIdle /\ TraceIdle
NextExtract == Extract /\ UNCHANGED <<agentVars, toolVars, cacheVars, keyVars, trieVars, syncVars, storeVars, retrieveVars, contextVars, logVars, utf8Vars, serverVars, graphVars, embedVars, traceVars>>
SpecExtract == InitExtract /\ [][NextExtract]_vars

InitAgent == ExtractIdle /\ AgentInit /\ ToolsInit /\ CacheInit /\ KeysIdle /\ TrieIdle /\ SyncIdle /\ StoreIdle /\ RetrieveIdle /\ ContextIdle /\ LogIdle /\ Utf8Idle /\ ServerIdle /\ GraphIdle /\ EmbedIdle /\ TraceIdle
NextAgent ==
    \/ ExecuteTask_Begin /\ UNCHANGED <<extractVars, toolVars, cacheVars, keyVars, trieVars, syncVars, storeVars, retrieveVars, contextVars, logVars, utf8Vars, serverVars, graphVars, embedVars, traceVars>>
    \/ \E resp \in LLMResponses, observation \in {"data", "ERROR"} :
          LoopStep(resp, observation) /\ UNCHANGED <<extractVars, toolVars, cacheVars, keyVars, trieVars, syncVars, storeVars, retrieveVars, contextVars, utf8Vars, serverVars, graphVars, embedVars, traceVars>>
    \/ LoopTimeout /\ UNCHANGED <<extractVars, toolVars, cacheVars, keyVars, trieVars, syncVars, storeVars, retrieveVars, contextVars, logVars, utf8Vars, serverVars, graphVars, embedVars, traceVars>>
    \/ ExecuteTask_Return /\ UNCHANGED <<extractVars, toolVars, cacheVars, keyVars, trieVars, syncVars, storeVars, retrieveVars, contextVars, logVars, utf8Vars, serverVars, graphVars, embedVars, traceVars>>
    \/ ExecuteTask_Catch /\ UNCHANGED <<extractVars, toolVars, cacheVars, keyVars, trieVars, syncVars, storeVars, retrieveVars, contextVars, logVars, utf8Vars, serverVars, graphVars, embedVars, traceVars>>
SpecAgent == InitAgent /\ [][NextAgent]_vars

InitTools == ExtractIdle /\ AgentInit /\ ToolsInit /\ CacheInit /\ KeysIdle /\ TrieIdle /\ SyncIdle /\ StoreIdle /\ RetrieveIdle /\ ContextIdle /\ LogIdle /\ Utf8Idle /\ ServerIdle /\ GraphIdle /\ EmbedIdle /\ TraceIdle
NextTools ==
    \/ \E rel \in ReadArgs :
          ReadFileTool_execute(rel) /\ UNCHANGED <<extractVars, agentVars, cacheVars, keyVars, trieVars, syncVars, storeVars, retrieveVars, contextVars, logVars, utf8Vars, serverVars, graphVars, embedVars, traceVars>>
    \/ \E rel \in ReadArgs :
          read_file_lambda(rel) /\ UNCHANGED <<extractVars, agentVars, cacheVars, keyVars, trieVars, syncVars, storeVars, retrieveVars, contextVars, logVars, utf8Vars, serverVars, graphVars, embedVars, traceVars>>
    \/ \E rel \in ListArgs :
          ListDirTool_execute(rel) /\ UNCHANGED <<extractVars, agentVars, cacheVars, keyVars, trieVars, syncVars, storeVars, retrieveVars, contextVars, logVars, utf8Vars, serverVars, graphVars, embedVars, traceVars>>
    \/ \E rel \in ListArgs :
          list_dir_lambda(rel) /\ UNCHANGED <<extractVars, agentVars, cacheVars, keyVars, trieVars, syncVars, storeVars, retrieveVars, contextVars, logVars, utf8Vars, serverVars, graphVars, embedVars, traceVars>>
    \/ \E rel \in EditArgs, new_content \in NewContents :
          FileSurgicalTool_execute(rel, new_content) /\ UNCHANGED <<extractVars, agentVars, cacheVars, keyVars, trieVars, syncVars, storeVars, retrieveVars, contextVars, logVars, utf8Vars, serverVars, graphVars, embedVars, traceVars>>
    \/ \E how \in BackupOutcomes :
          backup(how) /\ UNCHANGED <<extractVars, agentVars, cacheVars, keyVars, trieVars, syncVars, storeVars, retrieveVars, contextVars, logVars, utf8Vars, serverVars, graphVars, embedVars, traceVars>>
    \/ \E how \in OpenOutcomes, rollback_how \in RollbackOutcomes :
          open_trunc(how, rollback_how) /\ UNCHANGED <<extractVars, agentVars, cacheVars, keyVars, trieVars, syncVars, storeVars, retrieveVars, contextVars, logVars, utf8Vars, serverVars, graphVars, embedVars, traceVars>>
    \/ \E how \in WriteOutcomes, commit_how \in CommitOutcomes :
          write_commit(how, commit_how) /\ UNCHANGED <<extractVars, agentVars, cacheVars, keyVars, trieVars, syncVars, storeVars, retrieveVars, contextVars, logVars, utf8Vars, serverVars, graphVars, embedVars, traceVars>>
SpecTools == InitTools /\ [][NextTools]_vars

InitJournal == ExtractIdle /\ AgentInit /\ ToolsInitStale /\ CacheInit /\ KeysIdle /\ TrieIdle /\ SyncIdle /\ StoreIdle /\ RetrieveIdle /\ ContextIdle /\ LogIdle /\ Utf8Idle /\ ServerIdle /\ GraphIdle /\ EmbedIdle /\ TraceIdle
SpecJournal == InitJournal /\ [][NextTools]_vars

InitCache == ExtractIdle /\ AgentInit /\ ToolsInit /\ CacheInit /\ KeysIdle /\ TrieIdle /\ SyncIdle /\ StoreIdle /\ RetrieveIdle /\ ContextIdle /\ LogIdle /\ Utf8Idle /\ ServerIdle /\ GraphIdle /\ EmbedIdle /\ TraceIdle
NextCache ==
    \/ Tick /\ UNCHANGED <<extractVars, agentVars, toolVars, keyVars, trieVars, syncVars, storeVars, retrieveVars, contextVars, logVars, utf8Vars, serverVars, graphVars, embedVars, traceVars>>
    \/ \E key \in Keys : get(key) /\ UNCHANGED <<extractVars, agentVars, toolVars, keyVars, trieVars, syncVars, storeVars, retrieveVars, contextVars, logVars, utf8Vars, serverVars, graphVars, embedVars, traceVars>>
    \/ \E key \in Keys, value \in Values :
          set(key, value) /\ UNCHANGED <<extractVars, agentVars, toolVars, keyVars, trieVars, syncVars, storeVars, retrieveVars, contextVars, logVars, utf8Vars, serverVars, graphVars, embedVars, traceVars>>
    \/ clear /\ UNCHANGED <<extractVars, agentVars, toolVars, keyVars, trieVars, syncVars, storeVars, retrieveVars, contextVars, logVars, utf8Vars, serverVars, graphVars, embedVars, traceVars>>
SpecCache == InitCache /\ [][NextCache]_vars

InitKeys == ExtractIdle /\ AgentInit /\ ToolsInit /\ CacheInit /\ KeysInit /\ TrieIdle /\ SyncIdle /\ StoreIdle /\ RetrieveIdle /\ ContextIdle /\ LogIdle /\ Utf8Idle /\ ServerIdle /\ GraphIdle /\ EmbedIdle /\ TraceIdle
NextKeys ==
    \/ \E found \in BOOLEAN :
          refresh_key_pool(found) /\ UNCHANGED <<extractVars, agentVars, toolVars, cacheVars, trieVars, syncVars, storeVars, retrieveVars, contextVars, logVars, utf8Vars, serverVars, graphVars, embedVars, traceVars>>
    \/ generate_text_elite_Begin /\ UNCHANGED <<extractVars, agentVars, toolVars, cacheVars, trieVars, syncVars, storeVars, retrieveVars, contextVars, logVars, utf8Vars, serverVars, graphVars, embedVars, traceVars>>
    \/ \E r \in Responses :
          retry_Attempt(r) /\ UNCHANGED <<extractVars, agentVars, toolVars, cacheVars, trieVars, syncVars, storeVars, retrieveVars, contextVars, logVars, utf8Vars, serverVars, graphVars, embedVars, traceVars>>
    \/ generate_autocomplete_Begin /\ UNCHANGED <<extractVars, agentVars, toolVars, cacheVars, trieVars, syncVars, storeVars, retrieveVars, contextVars, logVars, utf8Vars, serverVars, graphVars, embedVars, traceVars>>
    \/ \E r \in Responses :
          autocomplete_Attempt(r) /\ UNCHANGED <<extractVars, agentVars, toolVars, cacheVars, trieVars, syncVars, storeVars, retrieveVars, contextVars, logVars, utf8Vars, serverVars, graphVars, embedVars, traceVars>>
SpecKeys == InitKeys /\ [][NextKeys]_vars

InitTrie == ExtractIdle /\ AgentInit /\ ToolsInit /\ CacheInit /\ KeysIdle /\ TrieInit /\ SyncIdle /\ StoreIdle /\ RetrieveIdle /\ ContextIdle /\ LogIdle /\ Utf8Idle /\ ServerIdle /\ GraphIdle /\ EmbedIdle /\ TraceIdle
NextTrie ==
    \/ insert /\ UNCHANGED <<extractVars, agentVars, toolVars, cacheVars, keyVars, syncVars, storeVars, retrieveVars, contextVars, logVars, utf8Vars, serverVars, graphVars, embedVars, traceVars>>
    \/ \E path \in SegmentPaths(MaxPathLen) :
          check(path) /\ UNCHANGED <<extractVars, agentVars, toolVars, cacheVars, keyVars, syncVars, storeVars, retrieveVars, contextVars, logVars, utf8Vars, serverVars, graphVars, embedVars, traceVars>>
SpecTrie == InitTrie /\ [][NextTrie]_vars

InitSync == ExtractIdle /\ AgentInit /\ ToolsInit /\ CacheInit /\ KeysIdle /\ TrieIdle /\ SyncInit /\ StoreIdle /\ RetrieveIdle /\ ContextIdle /\ LogIdle /\ Utf8Idle /\ ServerIdle /\ GraphIdle /\ EmbedIdle /\ TraceIdle
NextSync ==
    \/ \E f \in SourceFiles, state \in FileStates \cup {"absent"} :
          (state \in StatesOf(f) \cup {"absent"} /\ touch(f, state)) /\ UNCHANGED <<extractVars, agentVars, toolVars, cacheVars, keyVars, trieVars, storeVars, retrieveVars, contextVars, logVars, utf8Vars, serverVars, graphVars, embedVars, traceVars>>
    \/ \E embed_ok \in BOOLEAN :
          perform_sync(embed_ok) /\ UNCHANGED <<extractVars, agentVars, toolVars, cacheVars, keyVars, trieVars, storeVars, retrieveVars, contextVars, logVars, utf8Vars, serverVars, graphVars, embedVars, traceVars>>
    \/ \E relative_path \in SourceFiles, embed_ok \in BOOLEAN :
          sync_single_file(relative_path, embed_ok) /\ UNCHANGED <<extractVars, agentVars, toolVars, cacheVars, keyVars, trieVars, storeVars, retrieveVars, contextVars, logVars, utf8Vars, serverVars, graphVars, embedVars, traceVars>>
SpecSync == InitSync /\ [][NextSync]_vars

InitStore == ExtractIdle /\ AgentInit /\ ToolsInit /\ CacheInit /\ KeysIdle /\ TrieIdle /\ SyncIdle /\ StoreIdle /\ RetrieveIdle /\ ContextIdle /\ LogIdle /\ Utf8Idle /\ ServerIdle /\ GraphIdle /\ EmbedIdle /\ TraceIdle
NextStore ==
    \/ \E files \in SUBSET StoreFiles, rev \in Revisions, embedded \in SUBSET NodeIds :
          full_sync_rebuild(files, rev, embedded) /\ UNCHANGED <<extractVars, agentVars, toolVars, cacheVars, keyVars, trieVars, syncVars, retrieveVars, contextVars, logVars, utf8Vars, serverVars, graphVars, embedVars, traceVars>>
    \/ \E file \in StoreFiles, rev \in Revisions, embedded \in SUBSET NodeIds :
          single_file_hot_add(file, rev, embedded) /\ UNCHANGED <<extractVars, agentVars, toolVars, cacheVars, keyVars, trieVars, syncVars, retrieveVars, contextVars, logVars, utf8Vars, serverVars, graphVars, embedVars, traceVars>>
    \/ load_vector_store /\ UNCHANGED <<extractVars, agentVars, toolVars, cacheVars, keyVars, trieVars, syncVars, retrieveVars, contextVars, logVars, utf8Vars, serverVars, graphVars, embedVars, traceVars>>
    \/ restart /\ UNCHANGED <<extractVars, agentVars, toolVars, cacheVars, keyVars, trieVars, syncVars, retrieveVars, contextVars, logVars, utf8Vars, serverVars, graphVars, embedVars, traceVars>>
SpecStore == InitStore /\ [][NextStore]_vars

InitRetrieve == ExtractIdle /\ AgentInit /\ ToolsInit /\ CacheInit /\ KeysIdle /\ TrieIdle /\ SyncIdle /\ StoreIdle /\ RetrieveInit /\ ContextIdle /\ LogIdle /\ Utf8Idle /\ ServerIdle /\ GraphIdle /\ EmbedIdle /\ TraceIdle
NextRetrieve ==
    \/ \E seeds \in SeedLists : retrieve_Begin(seeds) /\ UNCHANGED <<extractVars, agentVars, toolVars, cacheVars, keyVars, trieVars, syncVars, storeVars, contextVars, logVars, utf8Vars, serverVars, graphVars, embedVars, traceVars>>
    \/ exponential_graph_expansion_Step /\ UNCHANGED <<extractVars, agentVars, toolVars, cacheVars, keyVars, trieVars, syncVars, storeVars, contextVars, logVars, utf8Vars, serverVars, graphVars, embedVars, traceVars>>
    \/ \E max_nodes \in 1..MaxResults : retrieve_Return(max_nodes) /\ UNCHANGED <<extractVars, agentVars, toolVars, cacheVars, keyVars, trieVars, syncVars, storeVars, contextVars, logVars, utf8Vars, serverVars, graphVars, embedVars, traceVars>>
SpecRetrieve == InitRetrieve /\ [][NextRetrieve]_vars

InitContext == ExtractIdle /\ AgentInit /\ ToolsInit /\ CacheInit /\ KeysIdle /\ TrieIdle /\ SyncIdle /\ StoreIdle /\ RetrieveIdle /\ ContextIdle /\ LogIdle /\ Utf8Idle /\ ServerIdle /\ GraphIdle /\ EmbedIdle /\ TraceIdle
NextContext ==
    \E cands \in CandidateLists, budget \in Budgets :
        build_hierarchical_context(cands, budget) /\ UNCHANGED <<extractVars, agentVars, toolVars, cacheVars, keyVars, trieVars, syncVars, storeVars, retrieveVars, logVars, utf8Vars, serverVars, graphVars, embedVars, traceVars>>
SpecContext == InitContext /\ [][NextContext]_vars

InitLog == ExtractIdle /\ AgentInit /\ ToolsInit /\ CacheInit /\ KeysIdle /\ TrieIdle /\ SyncIdle /\ StoreIdle /\ RetrieveIdle /\ ContextIdle /\ LogIdle /\ Utf8Idle /\ ServerIdle /\ GraphIdle /\ EmbedIdle /\ TraceIdle
NextLog ==
    \/ \E t \in Threads : add_log_Lock(t) /\ UNCHANGED <<extractVars, agentVars, toolVars, cacheVars, keyVars, trieVars, syncVars, storeVars, retrieveVars, contextVars, utf8Vars, serverVars, graphVars, embedVars, traceVars>>
    \/ \E t \in Threads : add_log_Push(t) /\ UNCHANGED <<extractVars, agentVars, toolVars, cacheVars, keyVars, trieVars, syncVars, storeVars, retrieveVars, contextVars, utf8Vars, serverVars, graphVars, embedVars, traceVars>>
    \/ \E t \in Threads : add_log_Trim(t) /\ UNCHANGED <<extractVars, agentVars, toolVars, cacheVars, keyVars, trieVars, syncVars, storeVars, retrieveVars, contextVars, utf8Vars, serverVars, graphVars, embedVars, traceVars>>
    \/ \E t \in Threads : add_trace_Lock(t) /\ UNCHANGED <<extractVars, agentVars, toolVars, cacheVars, keyVars, trieVars, syncVars, storeVars, retrieveVars, contextVars, utf8Vars, serverVars, graphVars, embedVars, traceVars>>
    \/ \E t \in Threads : add_trace_Push(t) /\ UNCHANGED <<extractVars, agentVars, toolVars, cacheVars, keyVars, trieVars, syncVars, storeVars, retrieveVars, contextVars, utf8Vars, serverVars, graphVars, embedVars, traceVars>>
    \/ \E t \in Threads : add_trace_Trim(t) /\ UNCHANGED <<extractVars, agentVars, toolVars, cacheVars, keyVars, trieVars, syncVars, storeVars, retrieveVars, contextVars, utf8Vars, serverVars, graphVars, embedVars, traceVars>>
SpecLog == InitLog /\ [][NextLog]_vars

InitUtf8 == ExtractIdle /\ AgentInit /\ ToolsInit /\ CacheInit /\ KeysIdle /\ TrieIdle /\ SyncIdle /\ StoreIdle /\ RetrieveIdle /\ ContextIdle /\ LogIdle /\ Utf8Idle /\ ServerIdle /\ GraphIdle /\ EmbedIdle /\ TraceIdle
NextUtf8 ==
    \E cps \in CodepointLists, len \in 0..(4 * MaxCodepoints + 1) :
        utf8_safe_substr_Call(cps, len) /\ UNCHANGED <<extractVars, agentVars, toolVars, cacheVars, keyVars, trieVars, syncVars, storeVars, retrieveVars, contextVars, logVars, serverVars, graphVars, embedVars, traceVars>>
SpecUtf8 == InitUtf8 /\ [][NextUtf8]_vars

InitServer == ExtractIdle /\ AgentInit /\ ToolsInit /\ CacheInit /\ KeysIdle /\ TrieIdle /\ SyncIdle /\ StoreIdle /\ RetrieveIdle /\ ContextIdle /\ LogIdle /\ Utf8Idle /\ ServerIdle /\ GraphIdle /\ EmbedIdle /\ TraceIdle
NextServer ==
    \/ \E project_id \in Projects : handle_sync_project(project_id) /\ UNCHANGED <<extractVars, agentVars, toolVars, cacheVars, keyVars, trieVars, syncVars, storeVars, retrieveVars, contextVars, logVars, utf8Vars, graphVars, embedVars, traceVars>>
    \/ \E project_id \in Projects : handle_sync_file(project_id) /\ UNCHANGED <<extractVars, agentVars, toolVars, cacheVars, keyVars, trieVars, syncVars, storeVars, retrieveVars, contextVars, logVars, utf8Vars, graphVars, embedVars, traceVars>>
    \/ \E w \in Workers : worker_Take(w) /\ UNCHANGED <<extractVars, agentVars, toolVars, cacheVars, keyVars, trieVars, syncVars, storeVars, retrieveVars, contextVars, logVars, utf8Vars, graphVars, embedVars, traceVars>>
    \/ \E w \in Workers, nodes_empty \in BOOLEAN : full_sync_job_Step(w, nodes_empty) /\ UNCHANGED <<extractVars, agentVars, toolVars, cacheVars, keyVars, trieVars, syncVars, storeVars, retrieveVars, contextVars, logVars, utf8Vars, graphVars, embedVars, traceVars>>
    \/ \E w \in Workers, cached \in BOOLEAN : single_file_job_Step(w, cached) /\ UNCHANGED <<extractVars, agentVars, toolVars, cacheVars, keyVars, trieVars, syncVars, storeVars, retrieveVars, contextVars, logVars, utf8Vars, graphVars, embedVars, traceVars>>
    \/ \E project_id \in Projects : retrieve_handler_Lock(project_id) /\ UNCHANGED <<extractVars, agentVars, toolVars, cacheVars, keyVars, trieVars, syncVars, storeVars, retrieveVars, contextVars, logVars, utf8Vars, graphVars, embedVars, traceVars>>
    \/ \E found \in BOOLEAN : retrieve_handler_Loaded(found) /\ UNCHANGED <<extractVars, agentVars, toolVars, cacheVars, keyVars, trieVars, syncVars, storeVars, retrieveVars, contextVars, logVars, utf8Vars, graphVars, embedVars, traceVars>>
    \/ retrieve_handler_Return /\ UNCHANGED <<extractVars, agentVars, toolVars, cacheVars, keyVars, trieVars, syncVars, storeVars, retrieveVars, contextVars, logVars, utf8Vars, graphVars, embedVars, traceVars>>
SpecServer == InitServer /\ [][NextServer]_vars

InitGraph == ExtractIdle /\ AgentInit /\ ToolsInit /\ CacheInit /\ KeysIdle /\ TrieIdle /\ SyncIdle /\ StoreIdle /\ RetrieveIdle /\ ContextIdle /\ LogIdle /\ Utf8Idle /\ ServerIdle /\ GraphIdle /\ EmbedIdle /\ TraceIdle
NextGraph ==
    \E parsed \in ParsedFiles : perform_sync_Nodes(parsed) /\ UNCHANGED <<extractVars, agentVars, toolVars, cacheVars, keyVars, trieVars, syncVars, storeVars, retrieveVars, contextVars, logVars, utf8Vars, serverVars, embedVars, traceVars>>
SpecGraph == InitGraph /\ [][NextGraph]_vars

InitEmbed == ExtractIdle /\ AgentInit /\ ToolsInit /\ CacheInit /\ KeysIdle /\ TrieIdle /\ SyncIdle /\ StoreIdle /\ RetrieveIdle /\ ContextIdle /\ LogIdle /\ Utf8Idle /\ ServerIdle /\ GraphIdle /\ EmbedIdle /\ TraceIdle
NextEmbed ==
    \/ \E n \in 0..MaxEmbedNodes : perform_sync_Embed(n) /\ UNCHANGED <<extractVars, agentVars, toolVars, cacheVars, keyVars, trieVars, syncVars, storeVars, retrieveVars, contextVars, logVars, utf8Vars, serverVars, graphVars, traceVars>>
    \/ \E reply \in BatchOutcomes : generate_embeddings_batch_Step(reply) /\ UNCHANGED <<extractVars, agentVars, toolVars, cacheVars, keyVars, trieVars, syncVars, storeVars, retrieveVars, contextVars, logVars, utf8Vars, serverVars, graphVars, traceVars>>
    \/ job_add_nodes /\ UNCHANGED <<extractVars, agentVars, toolVars, cacheVars, keyVars, trieVars, syncVars, storeVars, retrieveVars, contextVars, logVars, utf8Vars, serverVars, graphVars, traceVars>>
SpecEmbed == InitEmbed /\ [][NextEmbed]_vars

InitTrace == ExtractIdle /\ AgentInit /\ ToolsInit /\ CacheInit /\ KeysIdle /\ TrieIdle /\ SyncIdle /\ StoreIdle /\ RetrieveIdle /\ ContextIdle /\ LogIdle /\ Utf8Idle /\ ServerIdle /\ GraphIdle /\ EmbedIdle /\ TraceIdle
NextTrace ==
    \/ notify_PostAsync /\ UNCHANGED <<extractVars, agentVars, toolVars, cacheVars, keyVars, trieVars, syncVars, storeVars, retrieveVars, contextVars, logVars, utf8Vars, serverVars, graphVars, embedVars>>
    \/ \E e \in 1..MaxEvents : publish_trace_handler(e) /\ UNCHANGED <<extractVars, agentVars, toolVars, cacheVars, keyVars, trieVars, syncVars, storeVars, retrieveVars, contextVars, logVars, utf8Vars, serverVars, graphVars, embedVars>>
    \/ \E e \in 1..MaxEvents : post_fails(e) /\ UNCHANGED <<extractVars, agentVars, toolVars, cacheVars, keyVars, trieVars, syncVars, storeVars, retrieveVars, contextVars, logVars, utf8Vars, serverVars, graphVars, embedVars>>
SpecTrace == InitTrace /\ [][NextTrace]_vars

-----------------------------------------------------------------------------
(* Claims about the agent loop (SpecAgent).                                  *)

MissionOver == pc \in {"done", "cancelled"}

\* C1: over a whole mission run through ExecuteTask exactly one FINAL frame
\* is written to the streaming writer (the answer or the timeout, never two).
C1_ExactlyOneFinal ==
    MissionOver => events["FINAL"] = 1

\* C2: run_autonomous_loop makes at most max_steps LLM calls and ends either
\* at a step that yields a final answer or, when no step does, by returning
\* the step-limit timeout answer after the 10th step.
C2_EndsInFinalOrTimeout ==
    /\ llm_calls <= max_steps
    /\ pc \notin {"idle", "loop"} =>
          \/ outcome \in {"final", "direct"}
          \/ outcome = "timeout" /\ llm_calls = max_steps

\* C3: an action whose canonical form (tool name plus dumped parameters) was
\* already seen in the mission is not dispatched again, so no canonical
\* action is dispatched twice.
C3_RepeatedActionNotDispatched ==
    \A a \in DOMAIN dispatched : dispatched[a] <= 1

\* C4: once an LLM call has failed the mission is aborted with an ERROR
\* frame: the loop is not running any more (no further LLM call, no tool
\* dispatch) and the ERROR frame has been written.
C4_LLMFailureAborts ==
    llm_failed => (pc # "loop" /\ events["ERROR"] >= 1)

-----------------------------------------------------------------------------
(* Claims about extract_json (SpecExtract).                                  *)

\* Bracket matching: the index of the '}' that closes the group opened
\* before position i at nesting depth d, 0 when the text ends first.
RECURSIVE MatchClose(_, _, _)
MatchClose(s, i, d) ==
    IF i > Len(s) THEN 0
    ELSE IF s[i] = "{" THEN MatchClose(s, i + 1, d + 1)
    ELSE IF s[i] = "}" THEN (IF d = 1 THEN i ELSE MatchClose(s, i + 1, d - 1))
    ELSE MatchClose(s, i + 1, d)

FirstBalancedGroup(s) ==
    LET f == find(s, "{")
        e == IF f = 0 THEN 0 ELSE MatchClose(s, f + 1, 1)
    IN  IF e = 0 THEN <<>> ELSE SubSeq(s, f, e)

ParseOrEmpty(s) == IF ParsesAsObject(s) THEN s ELSE EmptyObject

\* C5: extract_json returns the parse of the first balanced {...} group of
\* the text, whatever follows that group, and an empty object when the text
\* has no braces.
C5_FirstBalancedGroup ==
    extracted # NotExtracted => extracted = ParseOrEmpty(FirstBalancedGroup(raw))

-----------------------------------------------------------------------------
(* Claims about the file tools and the atomic journal (SpecTools).           *)

EditReturned(status) ==
    /\ tool_result.tool = "apply_edit"
    /\ tool_result.status = status
    /\ tool_result.target \in FilePaths

\* C6: whenever apply_edit(path, new) returns success, the file holds exactly
\* new and <path>.synapse_journal does not exist, whatever the backup, open
\* and write steps did.
C6_SuccessMeansWritten ==
    EditReturned("SUCCESS") =>
        /\ disk[File(tool_result.target)] = tool_result.content
        /\ disk[JournalOf(tool_result.target)] = "absent"

\* C7: whenever apply_edit(path, new) returns failure, the file has the
\* content (or the non-existence) it had before the call and
\* <path>.synapse_journal does not exist, whichever step failed.
C7_FailureRestores ==
    EditReturned("ERROR") =>
        /\ disk[File(tool_result.target)] = before[File(tool_result.target)]
        /\ disk[JournalOf(tool_result.target)] = "absent"

\* The new content fails syntax validation for the extension, or is shorter
\* than 10 bytes for a file that is not .txt.
FailsValidation(content, ext) ==
    \/ has_error(content, get_lang(ext))
    \/ Size(content) < 10 /\ ext # ".txt"

C9_OutsideRootRejected ==
    tool_result.tool # "none" /\ Outside(tool_result.target) =>
        /\ tool_result.status = "ERROR"
        /\ \A q \in tool_result.touched : ~Outside(q)
        /\ \A f \in FileIds : Outside(f.path) => disk[f] = before[f]

\* C39: apply_edit never restores from a journal it did not create in the
\* same call: rollback runs only after backup, which writes the journal
\* anew unless the target does not exist, so the case is a failed edit of a
\* target that did not exist, which leaves it absent whatever journal lay
\* on disk.  A successful apply_edit leaves no journal behind.
C39_NoRestoreFromStaleJournal ==
    /\ (EditReturned("ERROR") /\ before[File(tool_result.target)] = "absent") =>
            disk[File(tool_result.target)] = "absent"
    /\ EditReturned("SUCCESS") => disk[JournalOf(tool_result.target)] = "absent"

-----------------------------------------------------------------------------
(* Claims about the cache (SpecCache).                                       *)

\* C10: whenever get(k) returns a value it is the value of the most recent
\* set(k, .) and the current time is at most that set's time plus the ttl;
\* a get on an entry whose ttl has elapsed returns none and removes the entry.
C10_GetReturnsFreshLastSet ==
    cache_returned.op = "get" =>
        LET k == cache_returned.key
        IN  /\ cache_returned.value # "none" =>
                  /\ last_set[k] # NeverSet
                  /\ cache_returned.value = last_set[k].value
                  /\ clock <= last_set[k].at + ttl_
            /\ (last_set[k] # NeverSet /\ clock > last_set[k].at + ttl_) =>
                  /\ cache_returned.value = "none"
                  /\ ~InMap(k)
                  /\ \A i \in 1..Len(cache_list) : cache_list[i] # k

\* C10's cases: a get returned the value of a key that had been overwritten,
\* at the last moment of its ttl.
C10_Witness ==
    /\ cache_returned.op = "get"
    /\ cache_returned.value = "v2"
    /\ last_set[cache_returned.key].at > 0
    /\ clock = last_set[cache_returned.key].at + ttl_

\* The entry that was least recently used: the key of the map whose most
\* recent hit get or set lies furthest back.
LeastRecentlyUsed ==
    CHOOSE k \in Keys :
        /\ InMap(k)
        /\ \A o \in Keys : InMap(o) => find(used, o) <= find(used, k)

\* C11: the cache never holds more than its capacity, and a set of a new key
\* on a full cache evicts exactly the least recently used entry (most recent
\* use = last hit get or set) and leaves every other entry and its value in
\* place.
C11_CapacityAndLRUEviction ==
    /\ [](MapSize <= max_size_ /\ Len(cache_list) = MapSize)
    /\ [][\A k \in Keys :
            (~InMap(k) /\ InMap(k)' /\ MapSize = max_size_) =>
                \E lru \in Keys :
                    /\ lru = LeastRecentlyUsed
                    /\ cache_map'[lru] = NoEntry
                    /\ evicted' = lru
                    /\ \A o \in Keys \ {k, lru} : cache_map'[o] = cache_map[o]]_vars

\* C11's case: a set on a full cache has just evicted a key that was set
\* after the key that stays, which a later hit get had made the more recent.
C11_Witness ==
    /\ evicted # "none"
    /\ \E o \in Keys :
          /\ InMap(o)
          /\ o # used[1]
          /\ last_set[o].at < last_set[evicted].at
          /\ clock <= last_set[evicted].at + ttl_

-----------------------------------------------------------------------------
(* Claims about the key pool and the remote calls (SpecKeys).                *)

\* C12: with two keys of which K1 always answers 429 and K2 answers 200, the
\* first generate_text_elite call returns success, the current key is K2
\* afterwards and K1's fail_count is exactly 1: the reported failure moved
\* the key cursor to the next key.
C12_FailureRotatesKey ==
    (/\ policy[0] = Always429 /\ policy[1] = Always200
     /\ remote_calls = 1 /\ call.op = "text" /\ call.pc = "returned") =>
        /\ call.result = "success"
        /\ get_current_key = 1
        /\ key_pool[0].fail_count = 1

\* C13: current_pair and get_current_key never return an inactive key while
\* at least one active key remains.
C13_InactiveKeySkipped ==
    get_active_key_count > 0 =>
        /\ key_pool[get_current_key].is_active
        /\ key_pool[get_current_pair.key_index].is_active

\* C14: a key is inactive exactly when it has had 3 consecutive failures
\* (failures with no successful call on that key in between) since the pool
\* was loaded.
C14_DeactivatedAfterThreeConsecutive ==
    \A k \in KeyIdx : ~key_pool[k].is_active <=> max_consecutive[k] >= 3

\* C15: one call through the retry wrapper issues at most 5 attempts, issues
\* none after a 200 or after a 4xx other than 429, reports a failure for the
\* 429 and 5xx responses and for no other, and is still going on only after
\* a 429 or 5xx.
C15_RetryPolicy ==
    call.op = "text" =>
        /\ call.attempts <= 5
        /\ ~call.late
        /\ call.reports = call.retriable
        /\ (call.pc = "running" /\ call.attempts > 0) => call.status \in {429, 503}
        /\ (call.pc = "returned" /\ call.status \in {429, 503}) => call.attempts = 5

\* C15's case: a call ended by a 400 at its third attempt, after two
\* reported failures.
C15_Witness ==
    /\ call.op = "text" /\ call.pc = "returned"
    /\ call.status = 400 /\ call.attempts = 3 /\ call.reports = 2

\* C16: generate_autocomplete returns the empty string only after every
\* (model, key) pair has been attempted, within keys x models attempts.
C16_GivesUpAfterEveryPair ==
    call.op = "autocomplete" =>
        /\ call.attempts <= NumKeys * NumModels
        /\ (call.pc = "returned" /\ call.result = "empty") =>
              call.tried = ModelIdx \X KeyIdx

-----------------------------------------------------------------------------
(* Claims about the path filter (SpecTrie).                                  *)

\* The linear scan over the rules: the flags of the longest rule that is a
\* segment-wise prefix of (or equal to) p, NONE when no rule is.
classify_by_linear_scan(rules, p) ==
    LET matching == {i \in 1..Len(rules) : IsPrefix(rules[i].path, p)}
    IN  IF matching = {} THEN NONE
        ELSE LET longest == CHOOSE i \in matching :
                                \A j \in matching : Len(rules[j].path) <= Len(rules[i].path)
             IN  UNION {rules[j].flag : j \in {m \in matching :
                                                   Len(rules[m].path) = Len(rules[longest].path)}}

\* C17: for every list of IGNORE and INCLUDE rules, inserted in any order,
\* and every relative path p, PrefixTrie::check(p) equals the result of the
\* linear scan over the rules.
C17_CheckEqualsLinearScan ==
    (checked # NotChecked /\ rules_pending = <<>>) =>
        checked.flags = classify_by_linear_scan(rules_inserted, checked.path)

-----------------------------------------------------------------------------
(* Claims about the sync (SpecSync).                                         *)

\* Rule matching as the configuration states it: a rule matches a path when
\* it is a segment-wise prefix of it or equal to it.
MatchesRule(rule_paths, e) == \E i \in 1..Len(rule_paths) : IsPrefix(rule_paths[i], e)
IsBridge(rule_paths, e) == \E i \in 1..Len(rule_paths) : IsPrefix(e, rule_paths[i])

\* C18: a directory is descended iff it is not ignored, or is an ancestor of
\* an INCLUDE rule, or matches an INCLUDE rule; so every file with an allowed
\* extension that matches an INCLUDE rule is collected by perform_sync, also
\* below a directory that matches an IGNORE rule.
C18_IncludedFilesCollected ==
    sync_result.op = "perform_sync" =>
        /\ \A d \in SourceDirs :
              (Len(d) = 1 \/ SubSeq(d, 1, Len(d) - 1) \in sync_result.descended) =>
                 (d \in sync_result.descended <=>
                     \/ ~MatchesRule(cfg.blacklist, d)
                     \/ IsBridge(cfg.whitelist, d)
                     \/ MatchesRule(cfg.whitelist, d))
        /\ \A f \in SourceFiles :
              (/\ source[f] # "absent"
               /\ ext_of(f) \in AllowedExtensions
               /\ MatchesRule(cfg.whitelist, f)) => f \in sync_result.collected

\* C19: after perform_sync the persisted manifest has an entry exactly for
\* the files that survived the filter in this scan, each holding the file's
\* current hash, and none for a file that is not on disk, whatever the
\* manifest was before.
C19_ManifestMatchesScan ==
    sync_result.op = "perform_sync" =>
        \A f \in SourceFiles :
            /\ f \in sync_result.collected => manifest[f] = calculate_file_hash(f)
            /\ f \notin sync_result.collected => manifest[f] = "none"
            /\ source[f] = "absent" => manifest[f] = "none"

\* C19's case: a sync over a manifest that held a stale hash for a file that
\* survives, and an entry for a file that is gone.
C19_Witness ==
    /\ sync_result.op = "perform_sync"
    /\ sync_result.had_stale
    /\ sync_result.had_gone

\* C20: after sync_single_file for a modified file f has completed, the
\* manifest entry of f is f's current hash and differs from the entry before
\* the call, the entries of the other files are unchanged, and only nodes
\* of f were sent for embedding.
C20_SingleFileSyncUpdatesManifest ==
    (/\ sync_result.op = "sync_single_file" /\ ~sync_result.threw
     /\ sync_result.before[sync_result.file] # calculate_file_hash(sync_result.file)) =>
        /\ manifest[sync_result.file] = calculate_file_hash(sync_result.file)
        /\ manifest[sync_result.file] # sync_result.before[sync_result.file]
        /\ \A f \in SourceFiles \ {sync_result.file} : manifest[f] = sync_result.before[f]
        /\ sync_result.embedded \subseteq {sync_result.file}
        /\ \A n \in sync_result.nodes : n.file = sync_result.file

-----------------------------------------------------------------------------
(* Claims about the vector store (SpecStore).                                *)

\* C21: node ids are unique in the project's index and the two maps are
\* mutually inverse: for every internal id i mapped to node n, the name
\* lookup of n.id yields i and returns the node stored at i.
C21_IdsUniqueMapsInverse ==
    project_store # NoStore =>
        /\ \A i, j \in 1..Len(project_store.nodes_list) :
              project_store.nodes_list[i].id = project_store.nodes_list[j].id => i = j
        /\ \A i \in DOMAIN project_store.id_to_node_map :
              LET n == project_store.id_to_node_map[i]
              IN  /\ n.id \in DOMAIN project_store.name_to_id_map
                  /\ project_store.name_to_id_map[n.id] = i
                  /\ get_node_by_name(project_store, n.id) = n

-----------------------------------------------------------------------------
(* Claims about retrieval (SpecRetrieve).                                    *)

\* C22: every returned result r reached from a seed with score s has
\* r.distance <= 3 and r.graph_score >= s * e^(-0.5 * r.distance): the
\* exponent applied at hop distance d is alpha * d, that is d halves.
C22_DecayExponentIsAlphaTimesDistance ==
    \A r \in results :
        /\ r.distance <= 3
        /\ r.graph_score.halves <= r.distance

\* The nodes a dependency chain of at most k links reaches from a seed.
RECURSIVE Within(_)
Within(k) ==
    IF k = 0 THEN {expansion_seeds[i].node : i \in 1..Len(expansion_seeds)}
    ELSE Within(k - 1) \cup
         {d \in RNodes : \E m \in Within(k - 1) : d \in dependencies[m]}

\* C36: the distance of every returned result is the length of the shortest
\* dependency chain from some seed to its node (0 for a seed, never more
\* than 3), and no node id is returned twice, cycles included.
C36_DistanceIsShortestChain ==
    retrieve_pc = "returned" =>
        /\ \A r \in results :
              /\ r.distance \in 0..max_hops
              /\ r.node \in Within(r.distance)
              /\ r.distance > 0 => r.node \notin Within(r.distance - 1)
        /\ \A r1, r2 \in results : r1.node = r2.node => r1 = r2

\* C36 witness: n5 is returned at distance 3 from the seed n1 and depends
\* on n1 again, and n3 is reachable by a chain of one and of two links.
C36_Witness ==
    /\ retrieve_pc = "returned"
    /\ \E r \in results : r.node = "n5" /\ r.distance = 3
    /\ \E r \in results : r.node = "n3" /\ r.distance = 1
    /\ Len(expansion_seeds) = 1 /\ expansion_seeds[1].node = "n1"
    /\ "n1" \in dependencies["n5"]
    /\ "n3" \in dependencies["n2"] /\ "n2" \in dependencies["n1"]

-----------------------------------------------------------------------------
(* Claims about context assembly (SpecContext).                              *)

\* C23: at most one block per file_path is emitted, whatever the types of
\* the nodes: no two entries of the context have the same file_path.
C23_OneBlockPerFile ==
    context # NotBuilt =>
        \A i, j \in 1..Len(context) :
            candidates[context[i]].file_path = candidates[context[j]].file_path => i = j

\* The candidates the loop does not skip: those with no earlier candidate
\* of type "file" for the same file_path.
NonSkipped ==
    SelectSeq([i \in 1..Len(candidates) |-> i],
              LAMBDA i : \A j \in 1..(i - 1) :
                            ~(candidates[j].type = "file"
                              /\ candidates[j].file_path = candidates[i].file_path))

\* C24: the returned string is never longer than max_chars; it consists of
\* the blocks of a prefix of the non-skipped candidates in the given order,
\* and the first block left out is one that would exceed the budget.
C24_WithinBudgetPrefix ==
    context # NotBuilt =>
        /\ context_length(context) <= max_chars
        /\ Len(context) <= Len(NonSkipped)
        /\ context = SubSeq(NonSkipped, 1, Len(context))
        /\ Len(context) < Len(NonSkipped) =>
              context_length(context) + entry_length(candidates[NonSkipped[Len(context) + 1]])
                  > max_chars

\* C24 witness: a block is emitted, the next one does not fit, and a later
\* one that would have fitted is left out.
C24_Witness ==
    /\ context # NotBuilt
    /\ Len(context) >= 1
    /\ Len(context) + 2 <= Len(NonSkipped)
    /\ context_length(context) + entry_length(candidates[NonSkipped[Len(context) + 2]])
          <= max_chars

-----------------------------------------------------------------------------
(* Claims about the log ring buffers (SpecLog).                              *)

\* The most recent (up to) ring_capacity of n appended entries, in append order.
MostRecent(n) ==
    [i \in 1..(IF n > ring_capacity THEN ring_capacity ELSE n) |->
        (IF n > ring_capacity THEN n - ring_capacity ELSE 0) + i]

-----------------------------------------------------------------------------
(* Claims about the agent loop and the interaction log (SpecAgent).          *)

\* C28: on every exit of the agent loop (FINAL_ANSWER, direct answer, step
\* limit, LLM failure) exactly one InteractionLog entry has been appended to
\* the log ring buffer.
C28_ExitAppendsOneInteractionLog ==
    outcome # "none" => appended_logs = 1 /\ Len(logs_) = 1

\* C29: every tool dispatch carries a project_id, and it is the mission's,
\* also when the parameters of the LLM had another project_id or were not a
\* JSON object.
C29_DispatchCarriesMissionProjectId ==
    \A d \in DOMAIN dispatched :
        d.params \cap {"project_id:evil", "project_id:ws"} = {MissionProjectId}

\* C29 witness: a dispatch whose parameters were not a JSON object (the
\* injected project_id is the only member) and one with other members.
C29_Witness ==
    /\ [tool |-> "list_dir", params |-> {MissionProjectId}] \in DOMAIN dispatched
    /\ [tool |-> "list_dir", params |-> {"path:.", MissionProjectId}] \in DOMAIN dispatched

-----------------------------------------------------------------------------
(* Claims about utf8_safe_substr (SpecUtf8).                                 *)

\* The byte offsets of str at which a code point ends (0 included).
Boundaries == {Len(Bytes(SubSeq(utf8_codepoints, 1, k))) : k \in 0..Len(utf8_codepoints)}

\* C30: for valid UTF-8 str and every length, the result is a prefix of str
\* of at most length bytes that ends on a code point boundary.
C30_PrefixOnCodepointBoundary ==
    utf8_sub # NotCalled =>
        /\ Len(utf8_sub) <= utf8_length
        /\ Len(utf8_sub) <= Len(Bytes(utf8_codepoints))
        /\ utf8_sub = SubSeq(Bytes(utf8_codepoints), 1, Len(utf8_sub))
        /\ Len(utf8_sub) \in Boundaries

\* C30 witness: the cut falls inside a multibyte sequence that follows
\* another code point, and the result is shorter than length.
C30_Witness ==
    /\ utf8_sub # NotCalled
    /\ utf8_length < Len(Bytes(utf8_codepoints))
    /\ utf8_length \notin Boundaries
    /\ utf8_sub # <<>>
    /\ Len(utf8_sub) < utf8_length

-----------------------------------------------------------------------------
(* Claims about the sync jobs and the store mutex (SpecServer).              *)

\* C26: two sync operations (full or single-file) for the same project
\* never execute concurrently: no two workers run jobs of one project.
C26_SyncsOfOneProjectSerialized ==
    \A w1, w2 \in Workers :
        (w1 # w2 /\ worker[w1] # Idle /\ worker[w2] # Idle)
            => worker[w1].project # worker[w2].project

\* C27: every read and write of the project store map and every add_nodes,
\* save and search on a project's store happens while the thread holds
\* store_mutex; a sync job that replaces or extends a project's store never
\* interleaves with a retrieval handler working on that store.
C27_StoreAccessUnderMutex ==
    /\ \A w \in Workers : worker[w].at \in StoreStatements => store_mutex = WorkerThread(w)
    /\ handler.at \in HandlerStoreStatements => store_mutex = HandlerThread
    /\ \A w \in Workers :
          ~(/\ worker[w].at \in StoreStatements
            /\ handler.at \in HandlerStoreStatements
            /\ handler.project = worker[w].project)

-----------------------------------------------------------------------------
(* Further claims about the sync (SpecSync).                                 *)

\* C31: in perform_sync a changed file is reparsed and its nodes are marked
\* for embedding, an unchanged file reuses its previous nodes, and an
\* unchanged file without previous nodes is reparsed; so every file that
\* survives the filter contributes at least one node to the sync result.
C31_EveryCollectedFileContributes ==
    sync_result.op = "perform_sync" =>
        \A f \in sync_result.collected : \E n \in sync_result.nodes : n.file = f

\* C32: a sync never records as up to date a file whose nodes are not in
\* the index: a file whose nodes failed to embed does not get its current
\* hash into the manifest, and after a sync no manifest entry equals the
\* current hash of a file of which the persisted index holds no node.
C32_ManifestNeverAheadOfIndex ==
    sync_result.op = "perform_sync" =>
        /\ \A n \in sync_result.nodes :
              ~n.embedding => manifest[n.file] # calculate_file_hash(n.file)
        /\ \A f \in SourceFiles :
              (source[f] # "absent" /\ manifest[f] = calculate_file_hash(f)) =>
                  \E n \in stored_nodes : n.file = f

\* C34: after a full sync every node of the project's index belongs to a
\* file that has an entry in the new manifest, also when the scan found no
\* file at all.
C34_IndexOnlyHoldsManifestFiles ==
    sync_result.op = "perform_sync" =>
        \A n \in stored_nodes : manifest[n.file] # "none"

-----------------------------------------------------------------------------
(* Claims about the telemetry bridge (SpecTrace).                            *)

\* C35: every event the agent loop emits is recorded in the trace ring
\* buffer, and the entries are in emission order, also when the publish
\* requests of successive events are in flight together: the recorded
\* events are in increasing order, and once no request is in flight every
\* emitted event is in the buffer.
C35_TracesInEmissionOrder ==
    /\ \A i, j \in 1..Len(published_traces) :
          i < j => published_traces[i] < published_traces[j]
    /\ in_flight = {} =>
          \A e \in 1..notified : \E i \in 1..Len(published_traces) : published_traces[i] = e

-----------------------------------------------------------------------------
(* Claims about the structural weights (SpecGraph).                          *)

\* The number of nodes whose dependencies reference node n.
incoming(n) == Cardinality({m \in graph_nodes : n.name \in m.dependencies})

max_incoming ==
    IF graph_nodes = {} THEN 0
    ELSE CHOOSE k \in 0..Cardinality(graph_nodes) :
            /\ \E n \in graph_nodes : incoming(n) = k
            /\ \A n \in graph_nodes : incoming(n) <= k

\* C38: after a sync every node's structural weight is
\* 0.3 + 0.7 * (incoming / max_incoming) and lies in [0.3, 1.0]; in tenths
\* and without the division: weight * max_incoming = 3 * max_incoming +
\* 7 * incoming.
C38_StructuralWeightFromIncoming ==
    \A n \in graph_nodes :
        /\ 3 <= n.structural /\ n.structural <= 10
        /\ max_incoming > 0 =>
              n.structural * max_incoming = 3 * max_incoming + 7 * incoming(n)

-----------------------------------------------------------------------------
(* Claims about the batched embedding (SpecEmbed).                           *)

\* The nodes of batch b (1, 2, ...) of n nodes.
BatchNodes(b, n) == {k \in 1..n : (b - 1) * batch_size < k /\ k <= b * batch_size}

\* C33: a failed batch does not abort the embedding: every batch is
\* attempted, a batch the service answers in full after a failed one is
\* embedded, the nodes of a failed batch keep their empty embedding and are
\* left out by add_nodes, and no node ever holds an embedding computed from
\* the text of another node.
C33_FailedBatchIsSkipped ==
    LET n == Len(node_embedding)
    IN  /\ \A k \in 1..n : node_embedding[k] \in {0, k}
        /\ \A b \in 1..Len(batch_results) :
              /\ batch_results[b] = "throw" =>
                    \A k \in BatchNodes(b, n) : node_embedding[k] = 0
              /\ batch_results[b] = "ok" =>
                    \A k \in BatchNodes(b, n) : node_embedding[k] = k
        /\ embed_pc \in {"done", "indexed"} =>
              Len(batch_results) * batch_size >= n
        /\ embed_pc = "indexed" =>
              embed_indexed = {k \in 1..n : node_embedding[k] # 0}

\* C33 witness: the first batch failed, the second was embedded, and the
\* store holds the nodes of the second batch only.
C33_Witness ==
    /\ embed_pc = "indexed"
    /\ Len(batch_results) >= 2
    /\ batch_results[1] = "throw"
    /\ batch_results[2] = "ok"
    /\ 1 \notin embed_indexed
    /\ (batch_size + 1) \in embed_indexed

-----------------------------------------------------------------------------
(* A further claim about the cache (SpecCache).                              *)

\* C40: after any sequence of get, set and clear the recency list and the
\* map hold the same keys, each key once in the list, and the list position
\* stored in every map entry is that of a node of the list holding the
\* entry's own key.
C40_ListAndMapAgree ==
    /\ {cache_list[i] : i \in 1..Len(cache_list)} = {k \in Keys : InMap(k)}
    /\ \A i, j \in 1..Len(cache_list) : cache_list[i] = cache_list[j] => i = j
    /\ Len(list_nodes) = Len(cache_list)
    /\ \A k \in Keys : InMap(k) =>
          \E i \in 1..Len(list_nodes) : list_nodes[i] = list_it[k] /\ cache_list[i] = k

\* C40 witness: a get has just erased an expired entry that was not at the
\* front of the list, after an eviction for capacity, and the entry that
\* stays points to a node that is not the first one allocated.
C40_Witness ==
    /\ cache_returned.op = "get"
    /\ cache_returned.value = "none"
    /\ last_set[cache_returned.key] # NeverSet
    /\ clock > last_set[cache_returned.key].at + ttl_
    /\ Len(cache_list) = 1
    /\ list_it[cache_list[1]] = 2
    /\ Len(used) = 3
    /\ used[1] = cache_list[1]
    /\ used[2] = cache_returned.key

-----------------------------------------------------------------------------
(* A further claim about the keys (SpecKeys).                                *)

\* C37: a 200 response of generate_text_elite whose body holds no usable
\* candidate is retried once on a rotated key, and the call fails only if
\* the retry is answered that way too: a call that failed on a 200 made at
\* least two requests, with at least two keys.
C37_MalformedResponseRetriedOnce ==
    (call.op = "text" /\ call.pc = "returned" /\ call.status = 200
        /\ call.result = "failure") =>
        /\ call.attempts >= 2
        /\ Cardinality({t[2] : t \in call.tried}) >= 2

=============================================================================
